---- MODULE Spec2Model ----
(***************************************************************************)
(* Micropay: the resilient request-dispatch core.                          *)
(*   - CircuitBreaker   (src/src/middleware/auth.js, lines 46-90)          *)
(*   - ServiceRegistry  (src/src/middleware/auth.js, lines 94-178)         *)
(*   - proxyRequest     (src/src/middleware/auth.js, lines 239-289)        *)
(*   - payments service (src/src/services/notifications/server.js,         *)
(*                       lines 347-680)                                    *)
(* Time is counted in ticks of the clock read by Date.now().               *)
(***************************************************************************)
EXTENDS Integers, Sequences, FiniteSets, TLC

\* ------------------------------------------------------------------ bounds
MaxThreshold == 3
MaxReset == 2
MaxTime == 4
MaxFailures == 5
MaxEntries == 6
MaxPayments == 4
MaxUsers == 3
MaxMessages == 3
MaxSubscriptions == 2

\* The tasks that may have a call() in flight on the one breaker.
Callers == {"c1", "c2"}
\* The task used when the breaker is driven by one sequential caller.
SeqCaller == "c1"

VARIABLES
  threshold,     \* CircuitBreaker.threshold
  resetTimeout,  \* CircuitBreaker.resetTimeout
  state,         \* CircuitBreaker.state
  failures,      \* CircuitBreaker.failures
  nextAttempt,   \* CircuitBreaker.nextAttempt
  now,           \* Date.now()
  calls,         \* per task: where its call() stands, and what it observed
  consec,        \* failed wrapped operations since the last successful one
  openedAt,      \* the time of the last step that took the state into OPEN
  lastObs,       \* what getState() returned last
  services,      \* ServiceRegistry.services: name -> list of instances
  lastOp,        \* the last registry or gateway operation and what it returned
  proxy,         \* per gateway request: where proxyRequest stands, and its response
  registered,    \* the service names given to register() since the Map was empty
  payments,      \* database.payments of the payments service, in creation order
  paymentEvents, \* the messages sent to the 'payment-events' queue, per payment
  pay,           \* per payments request handler: where it stands
  lastPay,       \* the last payments request answered, and its response
  users,         \* database.users of the users service: id -> user
  uuid,          \* how many ids uuid.v4() has given to createUser()
  userEvents,    \* the messages sent to the 'user-events' queue
  reg,           \* per register request of the users service: where it stands
  lastUser,      \* the last database call or users request, and what it returned
  queues,        \* MessageQueue.queues: name -> list of messages
  subscribers,   \* MessageQueue.subscribers: name -> list of callbacks
  msgIds,        \* how many ids uuid.v4() has given to sendMessage()
  lastMq,        \* the last message queue call: its result and the callbacks it ran
  orders,        \* database.orders of the orders service, in creation order
  orderEvents,   \* per order: the events sent to the 'order-events' queue
  payRequests,   \* per order: how many requests were sent to the payments service
  ord,           \* per pay request of the orders service: where it stands
  lastOrd        \* the last orders request answered, and its status code

cbVars == <<threshold, resetTimeout, state, failures, nextAttempt, now, calls, consec,
            openedAt, lastObs>>

regVars == <<services, lastOp, proxy, registered>>

payVars == <<payments, paymentEvents, pay, lastPay>>

usrVars == <<users, uuid, userEvents, reg, lastUser>>

mqVars == <<queues, subscribers, msgIds, lastMq>>

ordVars == <<orders, orderEvents, payRequests, ord, lastOrd>>

svcVars == <<usrVars, mqVars, ordVars>>

vars == <<threshold, resetTimeout, state, failures, nextAttempt, now, calls, consec,
          openedAt, lastObs, services, lastOp, proxy, registered, payments, paymentEvents, pay,
          lastPay, users, uuid, userEvents, reg, lastUser, queues, subscribers,
          msgIds, lastMq, orders, orderEvents, payRequests, ord, lastOrd>>

\* ------------------------------------------------------------ the breaker

\* A task that has not called yet.
NoCall ==
  [pc |-> "idle", entry |-> "none", elapsed |-> FALSE, seen |-> "none",
   invoked |-> 0, outcome |-> "none", args |-> <<>>, opArgs |-> <<>>,
   value |-> <<>>]

\* The arguments each task passes to call(): func and ...args.
ArgsOf(c) == IF c = "c1" THEN <<"arg1">> ELSE <<"a", "b", "c">>

\* What the wrapped operation resolves with, and what it rejects with.
OpResult(args) == <<"result">> \o args
OpError == <<"error", "Service error">>

\* new Error('Circuit breaker is OPEN')
OpenError == <<"error", "Circuit breaker is OPEN">>

\* The constructor's default arguments.
DefaultThreshold == 5
DefaultResetTimeout == 30000

\* new CircuitBreaker(threshold, timeout, resetTimeout)
Constructor(T, R) ==
  /\ threshold = T
  /\ resetTimeout = R
  /\ failures = 0
  /\ nextAttempt = now
  /\ state = "CLOSED"

\* recordFailure() that opens the breaker without counting the failure.
recordFailure_uncounted ==
  /\ UNCHANGED failures
  /\ IF failures + 1 >= threshold
       THEN /\ state' = "OPEN"
            /\ nextAttempt' = now + resetTimeout
       ELSE UNCHANGED <<state, nextAttempt>>

\* recordFailure() opening one failure late (> for >=).
recordFailure_late ==
  /\ failures' = failures + 1
  /\ IF failures + 1 > threshold
       THEN /\ state' = "OPEN"
            /\ nextAttempt' = now + resetTimeout
       ELSE UNCHANGED <<state, nextAttempt>>

\* recordFailure() that opens without stamping nextAttempt.
recordFailure_nostamp ==
  /\ failures' = failures + 1
  /\ IF failures + 1 >= threshold
       THEN /\ state' = "OPEN"
            /\ UNCHANGED nextAttempt
       ELSE UNCHANGED <<state, nextAttempt>>

\* recordFailure(): failures++, and open at the threshold.
recordFailure ==
  /\ failures' = failures + 1
  /\ IF failures + 1 >= threshold
       THEN /\ state' = "OPEN"
            /\ nextAttempt' = now + resetTimeout
       ELSE UNCHANGED <<state, nextAttempt>>

\* getState()
getState == state

\* call() that never probes: an OPEN breaker rejects whatever the clock says.
call_noprobe(c) ==
  /\ calls[c].pc = "idle"
  /\ IF state = "OPEN"
       THEN /\ calls' = [calls EXCEPT ![c] =
                 [pc |-> "idle", entry |-> state,
                  elapsed |-> (now >= nextAttempt),
                  seen |-> "none", invoked |-> 0, outcome |-> "openError",
                  args |-> ArgsOf(c), opArgs |-> <<>>, value |-> OpenError]]
            /\ UNCHANGED state
       ELSE /\ UNCHANGED state
            /\ calls' = [calls EXCEPT ![c] =
                 [pc |-> "awaiting", entry |-> state,
                  elapsed |-> (now >= nextAttempt),
                  seen |-> state', invoked |-> 1, outcome |-> "none",
                  args |-> ArgsOf(c), opArgs |-> ArgsOf(c), value |-> <<>>]]
  /\ UNCHANGED <<threshold, resetTimeout, failures, nextAttempt, now, consec,
                 openedAt, lastObs>>
  /\ UNCHANGED regVars
  /\ UNCHANGED svcVars

\* call() whose rejection starts the cooldown again.
call_extending(c) ==
  /\ calls[c].pc = "idle"
  /\ IF state = "OPEN" /\ now < nextAttempt
       THEN /\ calls' = [calls EXCEPT ![c] =
                 [pc |-> "idle", entry |-> state,
                  elapsed |-> (now >= nextAttempt),
                  seen |-> "none", invoked |-> 0, outcome |-> "openError",
                  args |-> ArgsOf(c), opArgs |-> <<>>, value |-> OpenError]]
            /\ nextAttempt' = now + resetTimeout
            /\ UNCHANGED state
       ELSE /\ state' = IF state = "OPEN" THEN "HALF_OPEN" ELSE state
            /\ calls' = [calls EXCEPT ![c] =
                 [pc |-> "awaiting", entry |-> state,
                  elapsed |-> (now >= nextAttempt),
                  seen |-> state', invoked |-> 1, outcome |-> "none",
                  args |-> ArgsOf(c), opArgs |-> ArgsOf(c), value |-> <<>>]]
            /\ UNCHANGED nextAttempt
  /\ UNCHANGED <<threshold, resetTimeout, failures, now, consec,
                 openedAt, lastObs>>
  /\ UNCHANGED regVars
  /\ UNCHANGED svcVars

\* call() with the cooldown test turned round (> for <).
call_inverted(c) ==
  /\ calls[c].pc = "idle"
  /\ IF state = "OPEN" /\ now > nextAttempt
       THEN /\ calls' = [calls EXCEPT ![c] =
                 [pc |-> "idle", entry |-> state,
                  elapsed |-> (now >= nextAttempt),
                  seen |-> "none", invoked |-> 0, outcome |-> "openError",
                  args |-> ArgsOf(c), opArgs |-> <<>>, value |-> OpenError]]
            /\ UNCHANGED state
       ELSE /\ state' = IF state = "OPEN" THEN "HALF_OPEN" ELSE state
            /\ calls' = [calls EXCEPT ![c] =
                 [pc |-> "awaiting", entry |-> state,
                  elapsed |-> (now >= nextAttempt),
                  seen |-> state', invoked |-> 1, outcome |-> "none",
                  args |-> ArgsOf(c), opArgs |-> ArgsOf(c), value |-> <<>>]]
  /\ UNCHANGED <<threshold, resetTimeout, failures, nextAttempt, now, consec,
                 openedAt, lastObs>>
  /\ UNCHANGED regVars
  /\ UNCHANGED svcVars

\* call() rejecting up to and including nextAttempt (<= for <).
call_inclusive(c) ==
  /\ calls[c].pc = "idle"
  /\ IF state = "OPEN" /\ now <= nextAttempt
       THEN /\ calls' = [calls EXCEPT ![c] =
                 [pc |-> "idle", entry |-> state,
                  elapsed |-> (now >= nextAttempt),
                  seen |-> "none", invoked |-> 0, outcome |-> "openError",
                  args |-> ArgsOf(c), opArgs |-> <<>>, value |-> OpenError]]
            /\ UNCHANGED state
       ELSE /\ state' = IF state = "OPEN" THEN "HALF_OPEN" ELSE state
            /\ calls' = [calls EXCEPT ![c] =
                 [pc |-> "awaiting", entry |-> state,
                  elapsed |-> (now >= nextAttempt),
                  seen |-> state', invoked |-> 1, outcome |-> "none",
                  args |-> ArgsOf(c), opArgs |-> ArgsOf(c), value |-> <<>>]]
  /\ UNCHANGED <<threshold, resetTimeout, failures, nextAttempt, now, consec,
                 openedAt, lastObs>>
  /\ UNCHANGED regVars
  /\ UNCHANGED svcVars

\* call(func, ...args) up to its await: the OPEN check, the move to HALF_OPEN
\* and the invocation of func. In the record, entry/elapsed are the state and
\* the cooldown test found on entry, seen is the state when func was invoked.
call(c) ==
  /\ calls[c].pc = "idle"
  /\ IF state = "OPEN" /\ now < nextAttempt
       THEN /\ calls' = [calls EXCEPT ![c] =
                 [pc |-> "idle", entry |-> state,
                  elapsed |-> (now >= nextAttempt),
                  seen |-> "none", invoked |-> 0, outcome |-> "openError",
                  args |-> ArgsOf(c), opArgs |-> <<>>, value |-> OpenError]]
            /\ UNCHANGED state
       ELSE /\ state' = IF state = "OPEN" THEN "HALF_OPEN" ELSE state
            /\ calls' = [calls EXCEPT ![c] =
                 [pc |-> "awaiting", entry |-> state,
                  elapsed |-> (now >= nextAttempt),
                  seen |-> state', invoked |-> 1, outcome |-> "none",
                  args |-> ArgsOf(c), opArgs |-> ArgsOf(c), value |-> <<>>]]
  /\ UNCHANGED <<threshold, resetTimeout, failures, nextAttempt, now, consec,
                 openedAt, lastObs>>
  /\ UNCHANGED regVars
  /\ UNCHANGED svcVars

\* reset() that clears the count and leaves the state as it is.
reset_countonly ==
  /\ failures' = 0
  /\ UNCHANGED <<state, nextAttempt>>

\* reset() that closes without clearing the failure count.
reset_keep ==
  /\ state' = "CLOSED"
  /\ UNCHANGED <<failures, nextAttempt>>

\* reset()
reset ==
  /\ failures' = 0
  /\ state' = "CLOSED"
  /\ UNCHANGED nextAttempt

\* call() after its await, throwing an error of its own for the operation's.
callSettle_wrapped(c, ok) ==
  /\ calls[c].pc = "awaiting"
  /\ IF ok
       THEN /\ reset
            /\ consec' = 0
            /\ calls' = [calls EXCEPT ![c].pc = "idle", ![c].outcome = "result",
                           ![c].value = OpResult(calls[c].opArgs)]
       ELSE /\ failures < MaxFailures
            /\ recordFailure
            /\ consec' = consec + 1
            /\ calls' = [calls EXCEPT ![c].pc = "idle", ![c].outcome = "opError",
                           ![c].value = OpenError]
  /\ openedAt' = IF state # "OPEN" /\ state' = "OPEN" THEN now ELSE openedAt
  /\ UNCHANGED <<threshold, resetTimeout, now, lastObs>>
  /\ UNCHANGED regVars
  /\ UNCHANGED svcVars

\* call() after its await: func resolved (ok) with its result, or rejected
\* (~ok) with its error; call() returns the one and rethrows the other.
callSettle(c, ok) ==
  /\ calls[c].pc = "awaiting"
  /\ IF ok
       THEN /\ reset
            /\ consec' = 0
            /\ calls' = [calls EXCEPT ![c].pc = "idle", ![c].outcome = "result",
                           ![c].value = OpResult(calls[c].opArgs)]
       ELSE /\ failures < MaxFailures
            /\ recordFailure
            /\ consec' = consec + 1
            /\ calls' = [calls EXCEPT ![c].pc = "idle", ![c].outcome = "opError",
                           ![c].value = OpError]
  /\ openedAt' = IF state # "OPEN" /\ state' = "OPEN" THEN now ELSE openedAt
  /\ UNCHANGED <<threshold, resetTimeout, now, lastObs>>
  /\ UNCHANGED regVars
  /\ UNCHANGED svcVars

\* getState() that starts the probe itself once the cooldown has elapsed.
GetState_probing ==
  /\ state' = IF state = "OPEN" /\ now >= nextAttempt THEN "HALF_OPEN" ELSE state
  /\ lastObs' = state'
  /\ UNCHANGED <<threshold, resetTimeout, failures, nextAttempt, now, calls,
                 consec, openedAt>>
  /\ UNCHANGED regVars
  /\ UNCHANGED svcVars
  /\ UNCHANGED payVars

\* A task calls getState().
GetState ==
  /\ lastObs' = getState
  /\ UNCHANGED <<threshold, resetTimeout, state, failures, nextAttempt, now, calls,
                 consec, openedAt>>
  /\ UNCHANGED regVars
  /\ UNCHANGED svcVars
  /\ UNCHANGED payVars

\* GET /health of the payments service: circuitBreaker: getState().
Health ==
  /\ lastObs' = getState
  /\ UNCHANGED <<threshold, resetTimeout, state, failures, nextAttempt, now, calls,
                 consec, openedAt>>
  /\ UNCHANGED regVars
  /\ UNCHANGED svcVars
  /\ UNCHANGED payVars

\* The clock advances without end: once it has reached MaxTime the origin of
\* time is moved forward instead, which keeps the order between the clock
\* and every stored time that is still ahead of it.
TickOn ==
  /\ IF now < MaxTime
       THEN /\ now' = now + 1
            /\ UNCHANGED <<nextAttempt, openedAt>>
       ELSE /\ now' = now
            /\ nextAttempt' = IF nextAttempt > 0 THEN nextAttempt - 1 ELSE 0
            /\ openedAt' = IF openedAt > 0 THEN openedAt - 1 ELSE 0
  /\ UNCHANGED <<threshold, resetTimeout, state, failures, calls, consec, lastObs>>
  /\ UNCHANGED regVars
  /\ UNCHANGED svcVars
  /\ UNCHANGED payVars

\* The clock advances.
Tick ==
  /\ now < MaxTime
  /\ now' = now + 1
  /\ UNCHANGED <<threshold, resetTimeout, state, failures, nextAttempt, calls, consec,
                 openedAt, lastObs>>
  /\ UNCHANGED regVars
  /\ UNCHANGED svcVars
  /\ UNCHANGED payVars

\* ----------------------------------------------------------- the registry

\* Service names given to the registry and the gateway; "ghost" is never
\* registered at startup.
Names == {"users", "ghost"}

\* Instances passed to register(); the last one carries fields of its own
\* that register() sets.
Instances ==
  { [id |-> "users-1", url |-> "http://localhost:3001"],
    [id |-> "users-2", url |-> "http://localhost:3011"],
    [id |-> "users-2", url |-> "http://localhost:3011",
     status |-> "unhealthy", registeredAt |-> -1] }

Ids == {i.id : i \in Instances}

\* The services registered when the module is loaded.
DefaultServices ==
  [n \in {"users", "payments", "orders", "notifications"} |->
     <<[id |-> n \o "-1",
        url |-> CASE n = "users" -> "http://localhost:3001"
                  [] n = "payments" -> "http://localhost:3002"
                  [] n = "orders" -> "http://localhost:3003"
                  [] n = "notifications" -> "http://localhost:3004",
        registeredAt |-> 0,
        status |-> "healthy"]>>]

\* this.services.has(serviceName)
Has(S, n) == n \in DOMAIN S

\* this.services.get(serviceName) || []
GetOrEmpty(S, n) == IF Has(S, n) THEN S[n] ELSE <<>>

\* The number of entries held by the registry.
RECURSIVE TotalEntries(_, _)
TotalEntries(S, D) ==
  IF D = {} THEN 0
  ELSE LET n == CHOOSE m \in D : TRUE
       IN Len(S[n]) + TotalEntries(S, D \ {n})

IsHealthy(i) == i.status = "healthy"

\* { ...instance, registeredAt: new Date(), status: 'healthy' }
Stamped(inst) ==
  [f \in DOMAIN inst \cup {"registeredAt", "status"} |->
     CASE f = "registeredAt" -> now
       [] f = "status" -> "healthy"
       [] OTHER -> inst[f]]

\* register() spreading the instance after the fields it sets.
register_spreadlast(S, n, inst) ==
  LET base == IF Has(S, n) THEN S
              ELSE [m \in DOMAIN S \cup {n} |-> IF m = n THEN <<>> ELSE S[m]]
      entry == [f \in DOMAIN inst \cup {"registeredAt", "status"} |->
                  IF f \in DOMAIN inst THEN inst[f]
                  ELSE IF f = "registeredAt" THEN now ELSE "healthy"]
  IN [base EXCEPT ![n] = Append(@, entry)]

\* register(serviceName, instance)
register(S, n, inst) ==
  LET base == IF Has(S, n) THEN S
              ELSE [m \in DOMAIN S \cup {n} |-> IF m = n THEN <<>> ELSE S[m]]
  IN [base EXCEPT ![n] = Append(@, Stamped(inst))]

\* discover() returning the whole list.
discover_unfiltered(S, n) == GetOrEmpty(S, n)

\* discover(serviceName)
discover(S, n) == SelectSeq(GetOrEmpty(S, n), IsHealthy)

\* getHealthyInstance() choosing among all instances of the service.
getHealthyInstance_any(S, n) ==
  LET instances == GetOrEmpty(S, n)
  IN IF Len(instances) = 0
       THEN {[threw |-> TRUE,
              message |-> "No healthy instances found for service: " \o n,
              value |-> <<>>]}
       ELSE {[threw |-> FALSE, message |-> "", value |-> <<instances[k + 1]>>] :
               k \in 0..(Len(instances) - 1)}

\* getHealthyInstance() always taking the first healthy instance.
getHealthyInstance_first(S, n) ==
  LET instances == SelectSeq(GetOrEmpty(S, n), IsHealthy)
  IN IF Len(instances) = 0
       THEN {[threw |-> TRUE,
              message |-> "No healthy instances found for service: " \o n,
              value |-> <<>>]}
       ELSE {[threw |-> FALSE, message |-> "", value |-> <<instances[1]>>]}

\* getHealthyInstance(serviceName): the outcomes Math.random() allows.
\* value holds the returned instance, or nothing when it threw.
getHealthyInstance(S, n) ==
  LET instances == discover(S, n)
  IN IF Len(instances) = 0
       THEN {[threw |-> TRUE,
              message |-> "No healthy instances found for service: " \o n,
              value |-> <<>>]}
       ELSE {[threw |-> FALSE, message |-> "", value |-> <<instances[k + 1]>>] :
               k \in 0..(Len(instances) - 1)}

\* unregister() removing the first entry with the id only.
unregister_first(S, n, id) ==
  IF Has(S, n)
    THEN LET L == S[n]
             K == {k \in 1..Len(L) : L[k].id = id}
         IN IF K = {} THEN S
            ELSE LET k == CHOOSE i \in K : \A j \in K : i <= j
                 IN [S EXCEPT ![n] = SubSeq(L, 1, k - 1) \o SubSeq(L, k + 1, Len(L))]
    ELSE S

\* unregister(serviceName, instanceId)
unregister(S, n, id) ==
  IF Has(S, n)
    THEN [S EXCEPT ![n] = SelectSeq(@, LAMBDA i : i.id # id)]
    ELSE S

\* Positions of the entries of L with the given id.
Matches(L, id) == {k \in 1..Len(L) : L[k].id = id}

Min(K) == CHOOSE k \in K : \A j \in K : k <= j

\* markUnhealthy() flipping the status of the first match.
markUnhealthy_toggle(S, n, id) ==
  IF Has(S, n) /\ Matches(S[n], id) # {}
    THEN [S EXCEPT ![n][Min(Matches(S[n], id))].status =
            IF @ = "healthy" THEN "unhealthy" ELSE "healthy"]
    ELSE S

\* markUnhealthy() marking every entry with the id.
markUnhealthy_every(S, n, id) ==
  IF Has(S, n)
    THEN [S EXCEPT ![n] =
            [k \in 1..Len(@) |->
               IF @[k].id = id THEN [@[k] EXCEPT !.status = "unhealthy"] ELSE @[k]]]
    ELSE S

\* markUnhealthy() adding an updated copy instead of changing the entry.
markUnhealthy_copy(S, n, id) ==
  IF Has(S, n) /\ Matches(S[n], id) # {}
    THEN [S EXCEPT ![n] =
            Append(@, [@[Min(Matches(@, id))] EXCEPT !.status = "unhealthy"])]
    ELSE S

\* markUnhealthy() giving an unknown service name an empty list.
markUnhealthy_creating(S, n, id) ==
  IF Has(S, n)
    THEN IF Matches(S[n], id) # {}
           THEN [S EXCEPT ![n][Min(Matches(S[n], id))].status = "unhealthy"]
           ELSE S
    ELSE [m \in DOMAIN S \cup {n} |-> IF m = n THEN <<>> ELSE S[m]]

\* markUnhealthy(serviceName, instanceId): find() takes the first match.
markUnhealthy(S, n, id) ==
  IF Has(S, n) /\ Matches(S[n], id) # {}
    THEN [S EXCEPT ![n][Min(Matches(S[n], id))].status = "unhealthy"]
    ELSE S

\* getAllServices() listing the healthy instances only.
getAllServices_healthy(S) == [n \in DOMAIN S |-> SelectSeq(S[n], IsHealthy)]

\* getAllServices()
getAllServices(S) == [n \in DOMAIN S |-> S[n]]

\* A Map with no key: new Map(), and the Map after clear().
EmptyMap == [n \in {} |-> <<>>]

\* arg: the instance handed to register(); pre: the length of the named list
\* before the operation.
NoOp == [op |-> "none", name |-> "", id |-> "", arg |-> <<>>, pre |-> 0,
         result |-> <<>>]

Register(n, inst) ==
  /\ TotalEntries(services, DOMAIN services) < MaxEntries
  /\ services' = register(services, n, inst)
  /\ lastOp' = [op |-> "register", name |-> n, id |-> inst.id, arg |-> <<inst>>,
                pre |-> Len(GetOrEmpty(services, n)), result |-> <<>>]
  /\ registered' = registered \cup {n}
  /\ UNCHANGED proxy
  /\ UNCHANGED cbVars
  /\ UNCHANGED svcVars
  /\ UNCHANGED payVars

\* A caller asks for getAllServices().
GetAllServices ==
  /\ lastOp' = [op |-> "getAllServices", name |-> "", id |-> "", arg |-> <<>>,
                pre |-> 0, result |-> <<getAllServices(services)>>]
  /\ services' = services
  /\ UNCHANGED <<proxy, registered>>
  /\ UNCHANGED cbVars
  /\ UNCHANGED svcVars
  /\ UNCHANGED payVars

\* serviceRegistry.services.clear(), as the test suite does before each test.
Clear ==
  /\ services' = EmptyMap
  /\ registered' = {}
  /\ lastOp' = [op |-> "clear", name |-> "", id |-> "", arg |-> <<>>,
                pre |-> 0, result |-> <<>>]
  /\ UNCHANGED proxy
  /\ UNCHANGED cbVars
  /\ UNCHANGED svcVars
  /\ UNCHANGED payVars

Discover(n) ==
  /\ services' = services
  /\ lastOp' = [op |-> "discover", name |-> n, id |-> "", arg |-> <<>>,
                pre |-> Len(GetOrEmpty(services, n)),
                result |-> discover(services, n)]
  /\ UNCHANGED <<proxy, registered>>
  /\ UNCHANGED cbVars
  /\ UNCHANGED svcVars
  /\ UNCHANGED payVars

GetHealthyInstance(n) ==
  /\ \E r \in getHealthyInstance(services, n) :
       lastOp' = [op |-> "getHealthyInstance", name |-> n, id |-> "", arg |-> <<>>,
                  pre |-> Len(GetOrEmpty(services, n)),
                  result |-> <<r>>]
  /\ services' = services
  /\ UNCHANGED <<proxy, registered>>
  /\ UNCHANGED cbVars
  /\ UNCHANGED svcVars
  /\ UNCHANGED payVars

Unregister(n, id) ==
  /\ services' = unregister(services, n, id)
  /\ lastOp' = [op |-> "unregister", name |-> n, id |-> id, arg |-> <<>>,
                pre |-> Len(GetOrEmpty(services, n)), result |-> <<>>]
  /\ UNCHANGED <<proxy, registered>>
  /\ UNCHANGED cbVars
  /\ UNCHANGED svcVars
  /\ UNCHANGED payVars

MarkUnhealthy(n, id) ==
  /\ services' = markUnhealthy(services, n, id)
  /\ lastOp' = [op |-> "markUnhealthy", name |-> n, id |-> id, arg |-> <<>>,
                pre |-> Len(GetOrEmpty(services, n)), result |-> <<>>]
  /\ UNCHANGED <<proxy, registered>>
  /\ UNCHANGED cbVars
  /\ UNCHANGED svcVars
  /\ UNCHANGED payVars

\* ------------------------------------------------------------ the gateway

\* The gateway requests that may be in flight.
Reqs == {"r1"}

\* A response body: the gateway's own, or one forwarded from the service.
Body(e, m) == [error |-> e, message |-> m]

\* What the service can answer: axios resolves on 2xx and rejects, with
\* error.response set, on any other status.
RemoteSuccess ==
  { [status |-> 200, data |-> Body("", "Users retrieved successfully")] }

RemoteFailure ==
  { [status |-> 404, data |-> Body("User not found", "User does not exist")],
    [status |-> 503, data |-> Body("Service unavailable", "try later")] }

\* The errors the outbound call can reject with: code, and response if any.
TransportErrors ==
  { [code |-> "ECONNREFUSED", response |-> <<>>],
    [code |-> "ECONNABORTED", response |-> <<>>],
    [code |-> "ENOTFOUND", response |-> <<>>] }

HttpErrors == { [code |-> "ERR_BAD_RESPONSE", response |-> <<r>>] : r \in RemoteFailure }

\* new Error(message): no code, no response.
PlainError == [code |-> "", response |-> <<>>]

NoProxy ==
  [pc |-> "idle", service |-> "", resolved |-> FALSE, target |-> "",
   outbound |-> 0, sent |-> 0, escaped |-> FALSE, cause |-> "none",
   remote |-> <<>>, res |-> <<>>]

\* The catch block with the 503 and 504 answers exchanged.
proxyCatch_swapped(error, serviceName) ==
  IF error.code = "ECONNREFUSED"
    THEN [status |-> 504,
          body |-> Body("Gateway timeout", serviceName \o " service timed out")]
  ELSE IF error.code = "ECONNABORTED"
    THEN [status |-> 503,
          body |-> Body("Service unavailable", serviceName \o " service is not available")]
  ELSE IF error.response # <<>>
    THEN [status |-> error.response[1].status, body |-> error.response[1].data]
  ELSE [status |-> 500,
        body |-> Body("Internal gateway error", "Error communicating with service")]

\* The catch block of proxyRequest: the response for a caught error.
proxyCatch(error, serviceName) ==
  IF error.code = "ECONNREFUSED"
    THEN [status |-> 503,
          body |-> Body("Service unavailable", serviceName \o " service is not available")]
  ELSE IF error.code = "ECONNABORTED"
    THEN [status |-> 504,
          body |-> Body("Gateway timeout", serviceName \o " service timed out")]
  ELSE IF error.response # <<>>
    THEN [status |-> error.response[1].status, body |-> error.response[1].data]
  ELSE [status |-> 500,
        body |-> Body("Internal gateway error", "Error communicating with service")]

\* proxyRequest with getHealthyInstance called outside the try block.
ProxyRequest_unguarded(r, n) ==
  /\ proxy[r].pc # "awaiting"
  /\ \E h \in getHealthyInstance(services, n) :
       IF h.threw
         THEN proxy' = [proxy EXCEPT ![r] =
                [pc |-> "done", service |-> n, resolved |-> FALSE, target |-> "",
                 outbound |-> 0, sent |-> 0, escaped |-> TRUE,
                 cause |-> "resolution", remote |-> <<>>, res |-> <<>>]]
         ELSE proxy' = [proxy EXCEPT ![r] =
                [pc |-> "awaiting", service |-> n, resolved |-> TRUE,
                 target |-> h.value[1].url,
                 outbound |-> 1, sent |-> 0, escaped |-> FALSE,
                 cause |-> "none", remote |-> <<>>, res |-> <<>>]]
  /\ lastOp' = [op |-> "proxyRequest", name |-> n, id |-> "", arg |-> <<>>,
                pre |-> Len(GetOrEmpty(services, n)), result |-> <<>>]
  /\ UNCHANGED <<services, registered>>
  /\ UNCHANGED cbVars
  /\ UNCHANGED svcVars
  /\ UNCHANGED payVars

\* proxyRequest(req, res, serviceName, path) up to its await: resolve an
\* instance and issue the outbound call, or answer from the catch block.
\* In the record, cause is what the request met (the resolution error, or
\* how the outbound call settled) and remote the service's response, if any.
ProxyRequest(r, n) ==
  /\ proxy[r].pc # "awaiting"
  /\ \E h \in getHealthyInstance(services, n) :
       IF h.threw
         THEN proxy' = [proxy EXCEPT ![r] =
                [pc |-> "done", service |-> n, resolved |-> FALSE, target |-> "",
                 outbound |-> 0, sent |-> 1, escaped |-> FALSE,
                 cause |-> "resolution", remote |-> <<>>,
                 res |-> <<proxyCatch(PlainError, n)>>]]
         ELSE proxy' = [proxy EXCEPT ![r] =
                [pc |-> "awaiting", service |-> n, resolved |-> TRUE,
                 target |-> h.value[1].url,
                 outbound |-> 1, sent |-> 0, escaped |-> FALSE,
                 cause |-> "none", remote |-> <<>>, res |-> <<>>]]
  /\ lastOp' = [op |-> "proxyRequest", name |-> n, id |-> "", arg |-> <<>>,
                pre |-> Len(GetOrEmpty(services, n)), result |-> <<>>]
  /\ UNCHANGED <<services, registered>>
  /\ UNCHANGED cbVars
  /\ UNCHANGED svcVars
  /\ UNCHANGED payVars

\* proxyRequest after its await, the outbound call resolved: forward it.
ProxyForward(r, response) ==
  /\ proxy[r].pc = "awaiting"
  /\ proxy' = [proxy EXCEPT ![r].pc = "done", ![r].sent = @ + 1,
                 ![r].cause = "success", ![r].remote = <<response>>,
                 ![r].res = <<[status |-> response.status, body |-> response.data]>>]
  /\ UNCHANGED <<services, lastOp, registered>>
  /\ UNCHANGED cbVars
  /\ UNCHANGED svcVars
  /\ UNCHANGED payVars

\* proxyRequest marking the instance unhealthy when the outbound call fails.
ProxyFail_marking(r, error) ==
  /\ proxy[r].pc = "awaiting"
  /\ proxy' = [proxy EXCEPT ![r].pc = "done", ![r].sent = @ + 1,
                 ![r].cause = error.code, ![r].remote = error.response,
                 ![r].res = <<proxyCatch(error, proxy[r].service)>>]
  /\ services' =
       IF Has(services, proxy[r].service)
         THEN [services EXCEPT ![proxy[r].service] =
                 [k \in 1..Len(@) |->
                    IF @[k].url = proxy[r].target
                      THEN [@[k] EXCEPT !.status = "unhealthy"] ELSE @[k]]]
         ELSE services
  /\ UNCHANGED <<lastOp, registered>>
  /\ UNCHANGED cbVars
  /\ UNCHANGED svcVars
  /\ UNCHANGED payVars

\* proxyRequest after its await, the outbound call rejected: the catch block.
ProxyFail(r, error) ==
  /\ proxy[r].pc = "awaiting"
  /\ proxy' = [proxy EXCEPT ![r].pc = "done", ![r].sent = @ + 1,
                 ![r].cause = error.code, ![r].remote = error.response,
                 ![r].res = <<proxyCatch(error, proxy[r].service)>>]
  /\ UNCHANGED <<services, lastOp, registered>>
  /\ UNCHANGED cbVars
  /\ UNCHANGED svcVars
  /\ UNCHANGED payVars

\* --------------------------------------------------- the payments service

\* new CircuitBreaker(3, 10000, 15000): threshold and resetTimeout (ms).
PaymentThreshold == 3
PaymentResetTimeout == 15000

\* The clock of the payments service is counted in ticks of one cooldown.
MsPerTick == PaymentResetTimeout

\* req.user.userId of the requests; payments are created by the first user.
Users == {"u1", "u2"}
Payer == "u1"

\* req.body of POST /payments; 0 and "" stand for a field that is missing.
Bodies ==
  { [amount |-> a, currency |-> c, method |-> "card"] :
      a \in {0, -5, 100}, c \in {"", "USD"} }

\* A handler slot with no request.
NoPay == [pc |-> "idle", kind |-> "none", pid |-> 0]

\* No request answered yet. In an answered request, gateway says what became
\* of its gateway call: "none" (not reached), "rejected" by the breaker,
\* "failed" or "succeeded" after being invoked.
NoAnswer == [kind |-> "none", gateway |-> "none", res |-> <<>>]

\* res.status(status).json({ error, message, payment, circuitBreakerState });
\* "" and <<>> stand for a key the body does not have.
PayRes(status, error, message, payment, cbState) ==
  <<[status |-> status, error |-> error, message |-> message,
     payment |-> payment, circuitBreakerState |-> cbState]>>

\* database.createPayment(payment): the uuid is the position in the list.
createPayment(P, userId, status) ==
  Append(P, [id |-> Len(P) + 1, userId |-> userId,
             status |-> IF status = "" THEN "pending" ELSE status,
             error |-> ""])

\* database.updatePayment(id, updates): Object.assign(payment, updates)
updatePayment(P, id, updates) ==
  [P EXCEPT ![id] =
     [f \in DOMAIN @ |-> IF f \in DOMAIN updates THEN updates[f] ELSE @[f]]]

\* The catch block of POST /payments answering without updating the record.
failedPayment_skipped(P, id, message) == P

\* The catch block of POST /payments recording the failure without its message.
failedPayment_nomessage(P, id, message) ==
  updatePayment(P, id, [status |-> "failed"])

\* The catch block of POST /payments: status 'failed', error: gatewayError.message
failedPayment(P, id, message) ==
  updatePayment(P, id, [status |-> "failed", error |-> message])

\* gatewayError.message: call() throws its own error when it rejects the call,
\* and rethrows the error of callPaymentGateway otherwise.
gatewayErrorMessage(c) ==
  IF c.outcome = "openError" THEN c.value[2] ELSE "Payment gateway timeout"

\* messageQueue.sendMessage('payment-events', { event, paymentId, error }).
\* The queue is kept as the messages of each payment, in the order sent.
sendMessage(Q, event, paymentId, error) ==
  [Q EXCEPT ![paymentId] =
     Append(@, [event |-> event, paymentId |-> paymentId, error |-> error])]

\* The handler answers: res.status(...).json(...), its one response.
Answer(h, kind, gateway, res) ==
  /\ pay' = [pay EXCEPT ![h] = NoPay]
  /\ lastPay' = [kind |-> kind, gateway |-> gateway, res |-> res]

\* The handler waits for paymentGatewayBreaker.call() to settle.
Await(h, kind, id) ==
  /\ pay' = [pay EXCEPT ![h] = [pc |-> "awaiting", kind |-> kind, pid |-> id]]
  /\ UNCHANGED lastPay

\* POST /payments up to the await of paymentGatewayBreaker.call(); a call the
\* breaker rejects reaches the catch block without any other task running.
PayCreate(h, u, body) ==
  /\ pay[h].pc = "idle"
  /\ calls[h].pc = "idle"
  /\ IF body.amount = 0 \/ body.currency = "" \/ body.method = ""
       THEN /\ Answer(h, "create", "none",
                      PayRes(400, "Missing required fields", "", <<>>, ""))
            /\ UNCHANGED <<payments, paymentEvents>>
            /\ UNCHANGED cbVars
            /\ UNCHANGED regVars
            /\ UNCHANGED svcVars
     ELSE IF body.amount <= 0
       THEN /\ Answer(h, "create", "none",
                      PayRes(400, "Invalid amount", "Amount must be greater than 0",
                             <<>>, ""))
            /\ UNCHANGED <<payments, paymentEvents>>
            /\ UNCHANGED cbVars
            /\ UNCHANGED regVars
            /\ UNCHANGED svcVars
     ELSE /\ Len(payments) < MaxPayments
          /\ call(h)
          /\ LET created == createPayment(payments, u, "processing")
                 id == Len(created)
                 message == gatewayErrorMessage(calls'[h])
             IN IF calls'[h].outcome = "openError"
                  THEN /\ payments' = failedPayment(created, id, message)
                       /\ paymentEvents' =
                            sendMessage(paymentEvents, "payment.failed", id, message)
                       /\ Answer(h, "create", "rejected",
                                 PayRes(502, "Payment processing failed",
                                        "External payment gateway error",
                                        <<payments'[id]>>, state'))
                  ELSE /\ payments' = created
                       /\ UNCHANGED paymentEvents
                       /\ Await(h, "create", id)

\* POST /payments after the await: callPaymentGateway resolved (ok) or threw.
PayCreateSettle(h, ok) ==
  /\ pay[h].pc = "awaiting"
  /\ pay[h].kind = "create"
  /\ callSettle(h, ok)
  /\ LET id == pay[h].pid
         message == gatewayErrorMessage(calls'[h])
     IN IF ok
          THEN /\ payments' = updatePayment(payments, id, [status |-> "completed"])
               /\ paymentEvents' =
                    sendMessage(paymentEvents, "payment.completed", id, "")
               /\ Answer(h, "create", "succeeded",
                         PayRes(201, "", "Payment processed successfully",
                                <<payments'[id]>>, ""))
          ELSE /\ payments' = failedPayment(payments, id, message)
               /\ paymentEvents' =
                    sendMessage(paymentEvents, "payment.failed", id, message)
               /\ Answer(h, "create", "failed",
                         PayRes(502, "Payment processing failed",
                                "External payment gateway error",
                                <<payments'[id]>>, state'))

\* POST /payments/:id/refund up to the await of paymentGatewayBreaker.call().
PayRefund(h, u, id) ==
  /\ pay[h].pc = "idle"
  /\ calls[h].pc = "idle"
  /\ IF id > Len(payments)
       THEN /\ Answer(h, "refund", "none",
                      PayRes(404, "Payment not found", "Payment does not exist",
                             <<>>, ""))
            /\ UNCHANGED <<payments, paymentEvents>>
            /\ UNCHANGED cbVars
            /\ UNCHANGED regVars
            /\ UNCHANGED svcVars
     ELSE IF payments[id].userId # u
       THEN /\ Answer(h, "refund", "none",
                      PayRes(403, "Forbidden",
                             "You can only refund your own payments", <<>>, ""))
            /\ UNCHANGED <<payments, paymentEvents>>
            /\ UNCHANGED cbVars
            /\ UNCHANGED regVars
            /\ UNCHANGED svcVars
     ELSE IF payments[id].status # "completed"
       THEN /\ Answer(h, "refund", "none",
                      PayRes(400, "Cannot refund",
                             "Only completed payments can be refunded", <<>>, ""))
            /\ UNCHANGED <<payments, paymentEvents>>
            /\ UNCHANGED cbVars
            /\ UNCHANGED regVars
            /\ UNCHANGED svcVars
     ELSE /\ call(h)
          /\ UNCHANGED <<payments, paymentEvents>>
          /\ IF calls'[h].outcome = "openError"
               THEN Answer(h, "refund", "rejected",
                           PayRes(502, "Refund processing failed",
                                  "External payment gateway error", <<>>, state'))
               ELSE Await(h, "refund", id)

\* POST /payments/:id/refund after the await: the wrapped operation waits for a
\* timer and returns, it has no way to reject.
PayRefundSettle(h) ==
  /\ pay[h].pc = "awaiting"
  /\ pay[h].kind = "refund"
  /\ callSettle(h, TRUE)
  /\ LET id == pay[h].pid
     IN /\ payments' = updatePayment(payments, id, [status |-> "refunded"])
        /\ paymentEvents' = sendMessage(paymentEvents, "payment.refunded", id, "")
        /\ Answer(h, "refund", "succeeded",
                  PayRes(200, "", "Payment refunded successfully",
                         <<payments'[id]>>, ""))

\* The payments service with no payment and no request yet.
InitPayments ==
  /\ payments = <<>>
  /\ paymentEvents = [id \in 1..MaxPayments |-> <<>>]
  /\ pay = [h \in Callers |-> NoPay]
  /\ lastPay = NoAnswer

\* ------------------------------------------------------ the users service

\* The register requests that may be in flight at once.
Slots == {"s1", "s2"}

\* req.body of POST /users/register; "" stands for a field that is missing.
RegBodies ==
  { [email |-> e, password |-> p, name |-> "Ann"] :
      e \in {"", "ann@x.io", "bob@x.io"}, p \in {"", "secret"} }

\* What a database call returns: null, undefined, or a value.
Null == [is |-> "null"]
Undefined == [is |-> "undefined"]
Value(v) == [is |-> "value", value |-> v]

\* database.createUser(user): the k-th uuid names the user.
createUser(U, k, user) ==
  [id \in DOMAIN U \cup {k} |->
     IF id = k THEN [id |-> k, email |-> user.email, status |-> user.status]
     ELSE U[id]]

\* database.getUserById(id): this.users.get(id)
getUserById(U, id) == IF id \in DOMAIN U THEN Value(U[id]) ELSE Undefined

\* database.getUserByEmail(email): the first user, in insertion order, or null.
getUserByEmail(U, email) ==
  LET found == {id \in DOMAIN U : U[id].email = email}
  IN IF found = {} THEN Null
     ELSE Value(U[CHOOSE id \in found : \A other \in found : id <= other])

\* database.deleteUser(id): this.users.delete(id), true when the key was there.
deleteUser(U, id) == [k \in DOMAIN U \ {id} |-> U[k]]

NoReg == [pc |-> "idle", email |-> ""]

NoUserOp == [op |-> "none", id |-> 0, email |-> "", status |-> 0, result |-> Null]

\* POST /users/register up to the await of bcrypt.hash().
UserRegister(h, body) ==
  /\ reg[h].pc = "idle"
  /\ IF body.email = "" \/ body.password = "" \/ body.name = ""
       THEN /\ lastUser' = [op |-> "register", id |-> 0, email |-> body.email,
                            status |-> 400, result |-> Null]
            /\ UNCHANGED reg
     ELSE IF getUserByEmail(users, body.email) # Null
       THEN /\ lastUser' = [op |-> "register", id |-> 0, email |-> body.email,
                            status |-> 409, result |-> Null]
            /\ UNCHANGED reg
     ELSE /\ uuid + Cardinality({s \in Slots : reg[s].pc = "hashing"}) < MaxUsers
          /\ reg' = [reg EXCEPT ![h] = [pc |-> "hashing", email |-> body.email]]
          /\ UNCHANGED lastUser
  /\ UNCHANGED <<users, uuid, userEvents>>
  /\ UNCHANGED <<mqVars, ordVars>>
  /\ UNCHANGED <<cbVars, regVars, payVars>>

\* POST /users/register after the await: createUser, the event, 201.
UserRegisterDone(h) ==
  /\ reg[h].pc = "hashing"
  /\ uuid' = uuid + 1
  /\ users' = createUser(users, uuid', [email |-> reg[h].email, status |-> "active"])
  /\ userEvents' = Append(userEvents, [event |-> "user.registered", userId |-> uuid',
                                       email |-> reg[h].email])
  /\ reg' = [reg EXCEPT ![h] = NoReg]
  /\ lastUser' = [op |-> "register", id |-> uuid', email |-> reg[h].email,
                  status |-> 201, result |-> Value(users'[uuid'])]
  /\ UNCHANGED <<mqVars, ordVars>>
  /\ UNCHANGED <<cbVars, regVars, payVars>>

\* A caller asks for database.getUserById(id).
GetUserById(id) ==
  /\ lastUser' = [op |-> "getUserById", id |-> id, email |-> "", status |-> 0,
                  result |-> getUserById(users, id)]
  /\ UNCHANGED <<users, uuid, userEvents, reg>>
  /\ UNCHANGED <<mqVars, ordVars>>
  /\ UNCHANGED <<cbVars, regVars, payVars>>

\* A caller asks for database.deleteUser(id).
DeleteUser(id) ==
  /\ users' = deleteUser(users, id)
  /\ lastUser' = [op |-> "deleteUser", id |-> id, email |-> "", status |-> 0,
                  result |-> Value(id \in DOMAIN users)]
  /\ UNCHANGED <<uuid, userEvents, reg>>
  /\ UNCHANGED <<mqVars, ordVars>>
  /\ UNCHANGED <<cbVars, regVars, payVars>>

\* The users service with no user and no request yet.
InitUsers ==
  /\ users = [id \in {} |-> Null]
  /\ uuid = 0
  /\ userEvents = <<>>
  /\ reg = [h \in Slots |-> NoReg]
  /\ lastUser = NoUserOp

\* ----------------------------------------------------- the message queue

\* Queue names given to the message queue; "test-queue" is not created at
\* startup.
QueueNames == {"user-events", "test-queue"}

\* The queues created when the module is loaded.
DefaultQueues ==
  [q \in {"user-events", "payment-events", "order-events", "notification-events"}
     |-> <<>>]

\* The message body given to sendMessage(); messages differ by their ids.
MsgBodies == {"m1"}

\* Callbacks given to subscribe(); "bad" throws whenever it is called.
Callbacks == {"cb1", "cb2", "bad"}
Throws(cb) == cb = "bad"

\* createQueue(queueName)
createQueue(Q, q) ==
  IF Has(Q, q) THEN Q
  ELSE [m \in DOMAIN Q \cup {q} |-> IF m = q THEN <<>> ELSE Q[m]]

\* array.splice(0, deleteCount): the count is clamped to 0..length.
splice(L, deleteCount) ==
  LET k == IF deleteCount < 0 THEN 0
           ELSE IF deleteCount > Len(L) THEN Len(L) ELSE deleteCount
  IN [removed |-> SubSeq(L, 1, k), kept |-> SubSeq(L, k + 1, Len(L))]

\* receiveMessages() taking the newest messages instead of the oldest.
receiveMessages_newest(Q, q, maxMessages) ==
  LET queue == GetOrEmpty(Q, q)
      k == IF maxMessages > Len(queue) THEN Len(queue) ELSE maxMessages
  IN [messages |-> SubSeq(queue, Len(queue) - k + 1, Len(queue)),
      queues |-> IF Has(Q, q)
                   THEN [Q EXCEPT ![q] = SubSeq(queue, 1, Len(queue) - k)]
                   ELSE Q]

\* receiveMessages(queueName, maxMessages): splice() changes the queue's own
\* list, or a fresh empty list when the queue is unknown.
receiveMessages(Q, q, maxMessages) ==
  LET queue == GetOrEmpty(Q, q)
      cut == splice(queue, maxMessages)
  IN [messages |-> cut.removed,
      queues |-> IF Has(Q, q) THEN [Q EXCEPT ![q] = cut.kept] ELSE Q]

\* notifySubscribers() without its try/catch: the first callback that throws
\* ends the loop and the error leaves sendMessage().
notifySubscribers_uncaught(S, q, message) ==
  LET callbacks == GetOrEmpty(S, q)
      bad == {k \in 1..Len(callbacks) : Throws(callbacks[k])}
      last == IF bad = {} THEN Len(callbacks)
              ELSE CHOOSE k \in bad : \A j \in bad : k <= j
  IN [calls |-> [k \in 1..last |->
                   [callback |-> callbacks[k], message |-> message,
                    threw |-> Throws(callbacks[k])]],
      threw |-> bad # {}]

\* notifySubscribers(queueName, message): the callbacks called, in order, and
\* whether an error leaves the method.
notifySubscribers(S, q, message) ==
  LET callbacks == GetOrEmpty(S, q)
  IN [calls |-> [k \in 1..Len(callbacks) |->
                   [callback |-> callbacks[k], message |-> message,
                    threw |-> Throws(callbacks[k])]],
      threw |-> FALSE]

NoMqOp == [op |-> "none", queue |-> "", arg |-> <<>>, result |-> <<>>,
           threw |-> FALSE, calls |-> <<>>]

\* A caller asks for createQueue(queueName).
CreateQueue(q) ==
  /\ queues' = createQueue(queues, q)
  /\ lastMq' = [NoMqOp EXCEPT !.op = "createQueue", !.queue = q]
  /\ UNCHANGED <<subscribers, msgIds>>
  /\ UNCHANGED <<usrVars, ordVars>>
  /\ UNCHANGED <<cbVars, regVars, payVars>>

\* A caller asks for sendMessage(queueName, message).
SendMessage(q, body) ==
  /\ msgIds < MaxMessages
  /\ msgIds' = msgIds + 1
  /\ LET messageWithId == [id |-> msgIds', body |-> body, attempts |-> 0]
         created == createQueue(queues, q)
         notified == notifySubscribers(subscribers, q, messageWithId)
     IN /\ queues' = [created EXCEPT ![q] = Append(@, messageWithId)]
        /\ lastMq' = [op |-> "sendMessage", queue |-> q, arg |-> <<body>>,
                      result |-> IF notified.threw THEN <<>> ELSE <<msgIds'>>,
                      threw |-> notified.threw, calls |-> notified.calls]
  /\ UNCHANGED subscribers
  /\ UNCHANGED <<usrVars, ordVars>>
  /\ UNCHANGED <<cbVars, regVars, payVars>>

\* A caller asks for receiveMessages(queueName, maxMessages).
ReceiveMessages(q, maxMessages) ==
  /\ LET received == receiveMessages(queues, q, maxMessages)
     IN /\ queues' = received.queues
        /\ lastMq' = [NoMqOp EXCEPT !.op = "receiveMessages", !.queue = q,
                                    !.arg = <<maxMessages>>,
                                    !.result = received.messages]
  /\ UNCHANGED <<subscribers, msgIds>>
  /\ UNCHANGED <<usrVars, ordVars>>
  /\ UNCHANGED <<cbVars, regVars, payVars>>

\* A caller asks for subscribe(queueName, callback).
Subscribe(q, cb) ==
  /\ TotalEntries(subscribers, DOMAIN subscribers) < MaxSubscriptions
  /\ subscribers' =
       [m \in DOMAIN subscribers \cup {q} |->
          IF m = q THEN Append(GetOrEmpty(subscribers, q), cb) ELSE subscribers[m]]
  /\ lastMq' = [NoMqOp EXCEPT !.op = "subscribe", !.queue = q, !.arg = <<cb>>]
  /\ UNCHANGED <<queues, msgIds>>
  /\ UNCHANGED <<usrVars, ordVars>>
  /\ UNCHANGED <<cbVars, regVars, payVars>>

\* The message queue after the module is loaded.
InitQueues ==
  /\ queues = DefaultQueues
  /\ subscribers = EmptyMap
  /\ msgIds = 0
  /\ lastMq = NoMqOp

\* ---- The orders service ----

\* The orders a run creates, and the payment requests sent for one order.
MaxOrders == 2
MaxAttempts == 2

OrderIds == 1..MaxOrders

\* Request bodies of POST /orders: items and shipping address.
OrderBodies ==
  { [items |-> <<[price |-> 5, quantity |-> 1]>>, shippingAddress |-> "1 Main St"],
    [items |-> <<[price |-> 0, quantity |-> 1]>>, shippingAddress |-> "1 Main St"],
    [items |-> <<>>, shippingAddress |-> "1 Main St"],
    [items |-> <<[price |-> 5, quantity |-> 1]>>, shippingAddress |-> ""] }

\* items.reduce((sum, item) => sum + item.price * item.quantity, 0)
RECURSIVE Total(_)
Total(items) ==
  IF items = <<>> THEN 0
  ELSE items[1].price * items[1].quantity + Total(Tail(items))

\* What the call to the payments service can come to: a 2xx answer whose
\* payment is 'completed', a 2xx answer whose payment is not, or a rejection.
PayOutcomes == {"completed", "other", "error"}

\* database.createOrder(order): the id is the position in creation order.
createOrder(O, order) ==
  Append(O, [id |-> Len(O) + 1, userId |-> order.userId, total |-> order.total,
             status |-> order.status, paymentId |-> ""])

\* database.getOrderById(id)
getOrderById(O, id) == IF id \in 1..Len(O) THEN Value(O[id]) ELSE Undefined

\* database.updateOrder(id, { status, paymentId }): Object.assign on the order.
updateOrder(O, id, status, paymentId) ==
  IF id \in 1..Len(O)
    THEN [O EXCEPT ![id].status = status, ![id].paymentId = paymentId]
    ELSE O

NoOrd == [pc |-> "idle", id |-> 0]
NoOrdAnswer == [op |-> "none", id |-> 0, status |-> 0]

OrdFrame ==
  /\ UNCHANGED <<usrVars, mqVars>>
  /\ UNCHANGED <<cbVars, payVars>>
  /\ UNCHANGED <<services, lastOp, proxy, registered>>

\* POST /orders
OrderCreate(u, body) ==
  /\ IF body.items = <<>> \/ body.shippingAddress = "" \/ Total(body.items) <= 0
       THEN /\ lastOrd' = [op |-> "create", id |-> 0, status |-> 400]
            /\ UNCHANGED <<orders, orderEvents, payRequests>>
       ELSE /\ Len(orders) < MaxOrders
            /\ orders' = createOrder(orders, [userId |-> u, total |-> Total(body.items),
                                              status |-> "pending"])
            /\ orderEvents' = [orderEvents EXCEPT ![Len(orders) + 1] =
                                 @ \cup {"order.created"}]
            /\ lastOrd' = [op |-> "create", id |-> Len(orders) + 1, status |-> 201]
            /\ UNCHANGED payRequests
  /\ UNCHANGED ord
  /\ OrdFrame

\* POST /orders/:id/pay up to its await on the call to the payments service.
OrderPay(h, u, id) ==
  /\ ord[h].pc = "idle"
  /\ LET order == getOrderById(orders, id)
     IN IF order = Undefined
          THEN /\ lastOrd' = [op |-> "pay", id |-> id, status |-> 404]
               /\ UNCHANGED <<orders, orderEvents, payRequests, ord>>
        ELSE IF order.value.userId # u
          THEN /\ lastOrd' = [op |-> "pay", id |-> id, status |-> 403]
               /\ UNCHANGED <<orders, orderEvents, payRequests, ord>>
        ELSE IF order.value.status # "pending"
          THEN /\ lastOrd' = [op |-> "pay", id |-> id, status |-> 400]
               /\ UNCHANGED <<orders, orderEvents, payRequests, ord>>
        ELSE \E r \in getHealthyInstance(services, "payments") :
               IF r.threw
                 THEN /\ orders' = updateOrder(orders, id, "payment_failed",
                                               order.value.paymentId)
                      /\ lastOrd' = [op |-> "pay", id |-> id, status |-> 502]
                      /\ UNCHANGED <<orderEvents, payRequests, ord>>
                 ELSE /\ payRequests[id] < MaxAttempts
                      /\ payRequests' = [payRequests EXCEPT ![id] = @ + 1]
                      /\ ord' = [ord EXCEPT ![h] =
                                   [pc |-> "awaiting", id |-> id]]
                      /\ UNCHANGED <<orders, orderEvents, lastOrd>>
  /\ OrdFrame

\* POST /orders/:id/pay after its await.
OrderPaySettle(h, outcome) ==
  /\ ord[h].pc = "awaiting"
  /\ LET id == ord[h].id
     IN CASE outcome = "completed" ->
               /\ orders' = updateOrder(orders, id, "confirmed", "pay-1")
               /\ orderEvents' = [orderEvents EXCEPT ![id] =
                                    @ \cup {"order.payment.completed"}]
               /\ lastOrd' = [op |-> "pay", id |-> id, status |-> 200]
          [] outcome = "other" ->
               /\ lastOrd' = [op |-> "pay", id |-> id, status |-> 502]
               /\ UNCHANGED <<orders, orderEvents>>
          [] outcome = "error" ->
               /\ orders' = updateOrder(orders, id, "payment_failed",
                                        orders[id].paymentId)
               /\ lastOrd' = [op |-> "pay", id |-> id, status |-> 502]
               /\ UNCHANGED orderEvents
  /\ ord' = [ord EXCEPT ![h] = NoOrd]
  /\ UNCHANGED payRequests
  /\ OrdFrame

\* DELETE /orders/:id
OrderCancel(u, id) ==
  /\ LET order == getOrderById(orders, id)
     IN IF order = Undefined
          THEN /\ lastOrd' = [op |-> "cancel", id |-> id, status |-> 404]
               /\ UNCHANGED <<orders, orderEvents>>
        ELSE IF order.value.userId # u
          THEN /\ lastOrd' = [op |-> "cancel", id |-> id, status |-> 403]
               /\ UNCHANGED <<orders, orderEvents>>
        ELSE IF order.value.status \in {"shipped", "delivered"}
          THEN /\ lastOrd' = [op |-> "cancel", id |-> id, status |-> 400]
               /\ UNCHANGED <<orders, orderEvents>>
        ELSE /\ orders' = updateOrder(orders, id, "cancelled", order.value.paymentId)
             /\ orderEvents' = [orderEvents EXCEPT ![id] = @ \cup {"order.cancelled"}]
             /\ lastOrd' = [op |-> "cancel", id |-> id, status |-> 200]
  /\ UNCHANGED <<payRequests, ord>>
  /\ OrdFrame

InitOrders ==
  /\ orders = <<>>
  /\ orderEvents = [i \in OrderIds |-> {}]
  /\ payRequests = [i \in OrderIds |-> 0]
  /\ ord = [h \in Slots |-> NoOrd]
  /\ lastOrd = NoOrdAnswer

\* The registry after the module is loaded, no request made yet.
InitRegistry ==
  /\ services = DefaultServices
  /\ registered = DOMAIN DefaultServices
  /\ lastOp = NoOp
  /\ proxy = [r \in Reqs |-> NoProxy]

InitCB ==
  /\ now = 0
  /\ \E T \in 1..MaxThreshold, R \in 0..MaxReset : Constructor(T, R)
  /\ calls = [c \in Callers |-> NoCall]
  /\ consec = 0
  /\ openedAt = 0
  /\ lastObs = "none"
  /\ InitRegistry
  /\ InitPayments
  /\ InitUsers
  /\ InitQueues
  /\ InitOrders

NextCB ==
  \/ \E c \in Callers : call(c) /\ UNCHANGED payVars
  \/ \E c \in Callers, ok \in BOOLEAN : callSettle(c, ok) /\ UNCHANGED payVars
  \/ GetState
  \/ Health
  \/ Tick

\* Any number of tasks share the breaker.
SpecCB == InitCB /\ [][NextCB]_vars

NextSeq ==
  \/ call(SeqCaller) /\ UNCHANGED payVars
  \/ \E ok \in BOOLEAN : callSettle(SeqCaller, ok) /\ UNCHANGED payVars
  \/ GetState
  \/ Tick

NextLive ==
  \/ \E c \in Callers : call(c) /\ UNCHANGED payVars
  \/ \E c \in Callers, ok \in BOOLEAN : callSettle(c, ok) /\ UNCHANGED payVars
  \/ TickOn

\* The breaker under the hypotheses of recovery: the clock keeps advancing,
\* every task keeps calling, and every invoked operation completes.
SpecLive ==
  /\ InitCB
  /\ [][NextLive]_vars
  /\ WF_vars(TickOn)
  /\ \A c \in Callers : WF_vars(call(c) /\ UNCHANGED payVars)
  /\ \A c \in Callers :
       WF_vars(\E ok \in BOOLEAN : callSettle(c, ok) /\ UNCHANGED payVars)

\* One task: each call() completes before the next begins.
SpecSeq == InitCB /\ [][NextSeq]_vars

\* The registry and the gateway, beside a breaker built with the defaults.
InitReg ==
  /\ now = 0
  /\ Constructor(DefaultThreshold, DefaultResetTimeout)
  /\ calls = [c \in Callers |-> NoCall]
  /\ consec = 0
  /\ openedAt = 0
  /\ lastObs = "none"
  /\ InitRegistry
  /\ InitPayments
  /\ InitUsers
  /\ InitQueues
  /\ InitOrders

NextReg ==
  \/ \E n \in Names, inst \in Instances : Register(n, inst)
  \/ \E n \in Names, id \in Ids : Unregister(n, id)
  \/ \E n \in Names, id \in Ids : MarkUnhealthy(n, id)
  \/ \E n \in Names : Discover(n)
  \/ \E n \in Names : GetHealthyInstance(n)
  \/ GetAllServices
  \/ Clear

\* The registry driven through its own operations.
SpecReg == InitReg /\ [][NextReg]_vars

NextGW ==
  \/ \E n \in Names, inst \in Instances : Register(n, inst)
  \/ \E n \in Names, id \in Ids : Unregister(n, id)
  \/ \E n \in Names, id \in Ids : MarkUnhealthy(n, id)
  \/ \E r \in Reqs, n \in Names : ProxyRequest(r, n)
  \/ \E r \in Reqs, response \in RemoteSuccess : ProxyForward(r, response)
  \/ \E r \in Reqs, error \in TransportErrors \cup HttpErrors : ProxyFail(r, error)

\* The gateway dispatching requests while the registry changes.
SpecGW == InitReg /\ [][NextGW]_vars

\* The payments service: its breaker, no call made yet.
InitPay ==
  /\ now = 0
  /\ Constructor(PaymentThreshold, PaymentResetTimeout \div MsPerTick)
  /\ calls = [c \in Callers |-> NoCall]
  /\ consec = 0
  /\ openedAt = 0
  /\ lastObs = "none"
  /\ InitRegistry
  /\ InitPayments
  /\ InitUsers
  /\ InitQueues
  /\ InitOrders

NextPay ==
  \/ \E h \in Callers, body \in Bodies : PayCreate(h, Payer, body)
  \/ \E h \in Callers, ok \in BOOLEAN : PayCreateSettle(h, ok)
  \/ \E h \in Callers, u \in Users, id \in 1..MaxPayments : PayRefund(h, u, id)
  \/ \E h \in Callers : PayRefundSettle(h)
  \/ Tick /\ state = "OPEN"

\* The payments service handling requests that share its breaker. The service
\* reads the clock only in the cooldown test and when the breaker opens, so
\* the clock is advanced while the breaker is OPEN.
SpecPay == InitPay /\ [][NextPay]_vars

NextUsers ==
  \/ \E h \in Slots, body \in RegBodies : UserRegister(h, body)
  \/ \E h \in Slots : UserRegisterDone(h)
  \/ \E id \in 1..MaxUsers : GetUserById(id)
  \/ \E id \in 1..MaxUsers : DeleteUser(id)

\* The users service and its database.
SpecUsers == InitReg /\ [][NextUsers]_vars

NextOrders ==
  \/ \E body \in OrderBodies : OrderCreate(Payer, body)
  \/ \E h \in Slots, u \in Users, id \in OrderIds : OrderPay(h, u, id)
  \/ \E h \in Slots, outcome \in PayOutcomes : OrderPaySettle(h, outcome)
  \/ \E u \in Users, id \in OrderIds : OrderCancel(u, id)
  \/ MarkUnhealthy("payments", "payments-1")

\* The orders service taking requests, two pay requests at a time, while the
\* payments instance may be marked unhealthy.
SpecOrders == InitReg /\ [][NextOrders]_vars

NextDispatch ==
  \/ \E body \in OrderBodies : OrderCreate(Payer, body)
  \/ \E id \in OrderIds : OrderPay("s1", Payer, id)
  \/ \E outcome \in PayOutcomes : OrderPaySettle("s1", outcome)
  \/ MarkUnhealthy("payments", "payments-1")
  \/ MarkUnhealthy("users", "users-1")
  \/ \E r \in Reqs, n \in Names : ProxyRequest(r, n)
  \/ \E r \in Reqs, response \in RemoteSuccess : ProxyForward(r, response)
  \/ \E r \in Reqs, error \in TransportErrors \cup HttpErrors : ProxyFail(r, error)

\* The gateway and the orders service dispatching to registered instances.
SpecDispatch == InitReg /\ [][NextDispatch]_vars

NextMQ ==
  \/ \E q \in QueueNames : CreateQueue(q)
  \/ \E q \in QueueNames, body \in MsgBodies : SendMessage(q, body)
  \/ \E q \in QueueNames, n \in 0..MaxMessages : ReceiveMessages(q, n)
  \/ \E q \in QueueNames, cb \in Callbacks : Subscribe(q, cb)

\* The message queue driven through its own operations.
SpecMQ == InitReg /\ [][NextMQ]_vars

TypeOK ==
  /\ state \in {"CLOSED", "OPEN", "HALF_OPEN"}
  /\ failures \in 0..MaxFailures
  /\ now \in 0..MaxTime

\* ------------------------------------------------- claims on the breaker

Idle(c) == calls[c].pc = "idle"

\* C1: driven by one sequential caller, a breaker with threshold T is CLOSED
\* after any run of fewer than T consecutive failed calls and OPEN right
\* after the T-th consecutive failed call.
C1_OpensAtThreshold ==
  Idle(SeqCaller) =>
    /\ consec < threshold => state = "CLOSED"
    /\ consec = threshold => state = "OPEN"

\* The T-th failure of a run has just opened a breaker with T > 1, and a
\* shorter run before it had left the breaker closed.
C1_Witness ==
  /\ Idle(SeqCaller)
  /\ threshold > 1
  /\ consec = threshold
  /\ calls[SeqCaller].outcome = "opError"
  /\ calls[SeqCaller].entry = "CLOSED"
  /\ state = "OPEN"

\* C2: a call() entered while the breaker is OPEN and now < nextAttempt fails
\* with 'Circuit breaker is OPEN' and does not invoke the wrapped operation,
\* for every caller in every interleaving.
C2_RejectedWhileCooling ==
  \A c \in Callers :
    (calls[c].entry = "OPEN" /\ ~calls[c].elapsed) =>
      /\ calls[c].outcome = "openError"
      /\ calls[c].invoked = 0
      /\ calls[c].pc = "idle"

\* A call was rejected while another task's earlier call is still in flight.
C2_Witness ==
  \E c, d \in Callers :
    /\ c # d
    /\ calls[c].entry = "OPEN" /\ ~calls[c].elapsed
    /\ calls[c].outcome = "openError"
    /\ calls[d].pc = "awaiting"
    /\ state = "OPEN"

\* C3: a call() entered while the breaker is OPEN and now >= nextAttempt moves
\* the breaker to HALF_OPEN before the wrapped operation starts, and invokes
\* the operation exactly once.
C3_ProbeAfterCooldown ==
  \A c \in Callers :
    (calls[c].entry = "OPEN" /\ calls[c].elapsed) =>
      /\ calls[c].seen = "HALF_OPEN"
      /\ calls[c].invoked = 1
      /\ calls[c].outcome # "openError"

\* The probe was admitted at now = nextAttempt with resetTimeout = 0.
C3_Witness ==
  \E c \in Callers :
    /\ calls[c].entry = "OPEN" /\ calls[c].elapsed
    /\ calls[c].pc = "awaiting"
    /\ state = "HALF_OPEN"
    /\ resetTimeout = 0
    /\ now = nextAttempt

\* C4: an operation that completes while the breaker is HALF_OPEN closes it
\* with failures = 0 when it succeeded, and re-opens it with
\* nextAttempt = (time of the failure + resetTimeout) when it failed.
C4_HalfOpenOutcome ==
  [][\A c \in Callers :
       (calls[c].pc = "awaiting" /\ calls'[c].pc = "idle" /\ state = "HALF_OPEN") =>
         IF calls'[c].outcome = "result"
           THEN state' = "CLOSED" /\ failures' = 0
           ELSE state' = "OPEN" /\ nextAttempt' = now + resetTimeout]_vars

\* A lone probe failed and re-opened the breaker with a fresh cooldown.
C4_Witness ==
  \E c \in Callers :
    /\ \A d \in Callers \ {c} : calls[d] = NoCall
    /\ calls[c].entry = "OPEN" /\ calls[c].elapsed
    /\ calls[c].outcome = "opError"
    /\ state = "OPEN"
    /\ resetTimeout > 0
    /\ now > 0
    /\ nextAttempt = now + resetTimeout

\* The call of task p made the OPEN -> HALF_OPEN transition and is in flight.
Probing(p) == calls[p].pc = "awaiting" /\ calls[p].entry = "OPEN"

\* C5: between an OPEN -> HALF_OPEN transition and the completion of the call
\* that made it, no other call() has its wrapped operation invoked.
C5_OneTrialPerCooldown ==
  [][\A p, c \in Callers :
       (p # c /\ Probing(p)) =>
         ~(calls[c].pc = "idle" /\ calls'[c].pc = "awaiting")]_vars

\* ---------------------------------- claims on the gateway and the registry

\* C6: proxyRequest for a service name with no healthy instance answers
\* 503 'Service unavailable' at once and issues no outbound call.
C6_ResolutionFailureIs503 ==
  \A r \in Reqs :
    (proxy[r].pc = "done" /\ ~proxy[r].resolved) =>
      /\ proxy[r].res[1].status = 503
      /\ proxy[r].res[1].body.error = "Service unavailable"
      /\ proxy[r].outbound = 0

\* The healthy entries of a list, in list order.
RECURSIVE KeepHealthy(_)
KeepHealthy(L) ==
  IF L = <<>> THEN <<>>
  ELSE IF Head(L).status = "healthy"
    THEN <<Head(L)>> \o KeepHealthy(Tail(L))
    ELSE KeepHealthy(Tail(L))

\* C7: discover(name) returns exactly the healthy entries of the service's
\* list, in list order, never an unhealthy one; for a name that is not
\* registered it returns the empty sequence and does not add the name.
C7_DiscoverHealthyOnly ==
  [][lastOp'.op = "discover" =>
       LET n == lastOp'.name
           found == lastOp'.result
       IN /\ \A k \in 1..Len(found) : found[k].status # "unhealthy"
          /\ found = KeepHealthy(IF n \in DOMAIN services THEN services[n] ELSE <<>>)
          /\ services' = services
          /\ n \notin DOMAIN services => (found = <<>> /\ n \notin DOMAIN services')]_vars

\* discover("users") left out an unhealthy entry that stands between two
\* healthy ones.
C7_Witness ==
  /\ lastOp.op = "discover"
  /\ lastOp.name = "users"
  /\ "users" \in DOMAIN services
  /\ Len(services["users"]) = 3
  /\ services["users"][2].status = "unhealthy"
  /\ Len(lastOp.result) = 2
  /\ lastOp.result[2] = services["users"][3]

\* C8: getHealthyInstance(name) raises 'No healthy instances found for
\* service: <name>' exactly when discover(name) is empty, and otherwise
\* returns a member of discover(name).
C8_HealthyInstanceOrError ==
  lastOp.op = "getHealthyInstance" =>
    LET n == lastOp.name
        got == lastOp.result[1]
        found == discover(services, n)
    IN /\ got.threw <=> Len(found) = 0
       /\ got.threw =>
            got.message = "No healthy instances found for service: " \o n
       /\ ~got.threw =>
            /\ \E k \in 1..Len(found) : found[k] = got.value[1]
            /\ got.value[1].status = "healthy"

\* getHealthyInstance("users") returned the healthy entry that follows an
\* unhealthy one.
C8_Witness ==
  /\ lastOp.op = "getHealthyInstance"
  /\ lastOp.name = "users"
  /\ ~lastOp.result[1].threw
  /\ "users" \in DOMAIN services
  /\ Len(services["users"]) >= 2
  /\ services["users"][1].status = "unhealthy"
  /\ lastOp.result[1].value[1] = services["users"][2]

\* L without its k-th entry.
RemoveAt(L, k) == [j \in 1..(Len(L) - 1) |-> IF j < k THEN L[j] ELSE L[j + 1]]

\* C9 as stated: after markUnhealthy(name, id), discover(name) holds no
\* instance with that id and every other instance it held before.
C9_NoInstanceWithIdLeft ==
  [][lastOp'.op = "markUnhealthy" =>
       LET n == lastOp'.name
           id == lastOp'.id
           before == discover(services, n)
           after == discover(services', n)
       IN /\ \A k \in 1..Len(after) : after[k].id # id
          /\ after = SelectSeq(before, LAMBDA i : i.id # id)]_vars

\* C9 amended: after markUnhealthy(name, id), discover(name) is the earlier
\* list's healthy entries without the first entry of that id; later entries
\* with the same id stay; with the id at most once in the list, no instance
\* with that id is returned.
C9_FirstMatchExcluded ==
  [][lastOp'.op = "markUnhealthy" =>
       LET n == lastOp'.name
           id == lastOp'.id
           L == IF n \in DOMAIN services THEN services[n] ELSE <<>>
           after == discover(services', n)
       IN /\ after = IF Matches(L, id) = {} THEN KeepHealthy(L)
                     ELSE KeepHealthy(RemoveAt(L, Min(Matches(L, id))))
          /\ Cardinality(Matches(L, id)) <= 1 =>
               \A k \in 1..Len(after) : after[k].id # id]_vars

\* markUnhealthy("users", "users-1") has marked the first of two entries with
\* that id, and the second is still healthy.
C9_Witness ==
  /\ lastOp.op = "markUnhealthy"
  /\ lastOp.name = "users"
  /\ lastOp.id = "users-1"
  /\ "users" \in DOMAIN services
  /\ Len(services["users"]) >= 2
  /\ services["users"][1].id = "users-1"
  /\ services["users"][1].status = "unhealthy"
  /\ services["users"][2].id = "users-1"
  /\ services["users"][2].status = "healthy"

\* No service lists an id twice.
UniqueIds(S) ==
  \A n \in DOMAIN S :
    \A j, k \in 1..Len(S[n]) : j # k => S[n][j].id # S[n][k].id

\* C10 as stated: a (serviceName, id) pair occurs at most once in the
\* registry, whatever register, unregister and markUnhealthy calls were made.
C10_PairUnique == UniqueIds(services)

\* C10 amended: a (serviceName, id) pair comes to occur twice only through
\* register() of an id that the service's list already holds; unregister,
\* markUnhealthy and register of an id not in the list keep the pairs unique.
C10_UniqueUnlessReRegistered ==
  [][(UniqueIds(services) /\ ~UniqueIds(services')) =>
       /\ lastOp'.op = "register"
       /\ Has(services, lastOp'.name)
       /\ Matches(services[lastOp'.name], lastOp'.id) # {}]_vars

\* register("users", users-2) added a second, different id and the pairs are
\* still unique.
C10_Witness ==
  /\ lastOp.op = "register"
  /\ lastOp.name = "users"
  /\ lastOp.id = "users-2"
  /\ "users" \in DOMAIN services
  /\ Len(services["users"]) = 2
  /\ services["users"][1].id = "users-1"
  /\ UniqueIds(services)

\* The gateway's own answer with the given status and error text.
Answered(r, st, e) ==
  /\ proxy[r].res[1].status = st
  /\ proxy[r].res[1].body.error = e

\* The service's response, forwarded unchanged.
Forwarded(r) ==
  /\ proxy[r].res[1].status = proxy[r].remote[1].status
  /\ proxy[r].res[1].body = proxy[r].remote[1].data

\* C11: how the outbound call settled decides the response: ECONNREFUSED ->
\* 503 'Service unavailable'; ECONNABORTED -> 504 'Gateway timeout'; an error
\* with a remote response -> that status and body; a successful response ->
\* its status and body; any other failure -> 500 'Internal gateway error'.
C11_OutcomeMapping ==
  \A r \in Reqs :
    (proxy[r].pc = "done" /\ proxy[r].resolved) =>
      CASE proxy[r].cause = "ECONNREFUSED" -> Answered(r, 503, "Service unavailable")
        [] proxy[r].cause = "ECONNABORTED" -> Answered(r, 504, "Gateway timeout")
        [] proxy[r].cause = "success" -> Forwarded(r)
        [] proxy[r].cause \notin {"ECONNREFUSED", "ECONNABORTED", "success"}
             /\ proxy[r].remote # <<>> -> Forwarded(r)
        [] OTHER -> Answered(r, 500, "Internal gateway error")

\* The outbound call timed out and the request was answered 504.
C11_Witness ==
  \E r \in Reqs :
    /\ proxy[r].pc = "done"
    /\ proxy[r].outbound = 1
    /\ proxy[r].cause = "ECONNABORTED"
    /\ proxy[r].res[1].status = 504

\* C12: every invocation of proxyRequest sends exactly one response, whatever
\* the resolution or the outbound call does, and no exception escapes it.
C12_ExactlyOneResponse ==
  \A r \in Reqs :
    /\ ~proxy[r].escaped
    /\ proxy[r].pc = "done" => (proxy[r].sent = 1 /\ proxy[r].res # <<>>)
    /\ proxy[r].pc # "done" => proxy[r].sent = 0

\* A request whose resolution failed has been answered once.
C12_Witness ==
  \E r \in Reqs :
    /\ proxy[r].pc = "done"
    /\ proxy[r].cause = "resolution"
    /\ proxy[r].sent = 1

\* The error proxyRequest catches for each cause of failure.
ErrorOf(cause) ==
  IF cause = "resolution" THEN PlainError ELSE [code |-> cause, response |-> <<>>]

\* C14: resolution failure, connection refused, timeout and unexpected
\* failure get pairwise distinct (status, message) pairs: the response sent
\* for one cause is not the response the dispatcher gives for another.
C14_DistinctFailureResponses ==
  \A r \in Reqs :
    (proxy[r].pc = "done"
       /\ proxy[r].cause \in {"resolution", "ECONNREFUSED", "ECONNABORTED", "ENOTFOUND"}) =>
      \A other \in {"resolution", "ECONNREFUSED", "ECONNABORTED", "ENOTFOUND"} \ {proxy[r].cause} :
        proxy[r].res[1] # proxyCatch(ErrorOf(other), proxy[r].service)

\* ------------------------------------------ further claims on the breaker

\* C15: every step that takes the breaker state to CLOSED sets failures to 0,
\* in every interleaving of calls.
C15_ClosedResetsCount ==
  [][(state # "CLOSED" /\ state' = "CLOSED") => failures' = 0]_vars

\* A probe has closed a breaker that had opened: the count is back at 0
\* while another task's call is still in flight.
C15_Witness ==
  \E c, d \in Callers :
    /\ c # d
    /\ calls[c].entry = "OPEN"
    /\ calls[c].outcome = "result"
    /\ calls[d].pc = "awaiting"
    /\ state = "CLOSED"
    /\ failures = 0

\* C16: whenever the breaker is OPEN, nextAttempt is (the time of the most
\* recent transition into OPEN + resetTimeout); it does not move while the
\* breaker stays OPEN, also when calls admitted earlier fail meanwhile.
C16_NextAttemptFixedWhileOpen ==
  state = "OPEN" => nextAttempt = openedAt + resetTimeout

\* C17: getState() returns the current state and changes nothing; a new
\* breaker reports CLOSED; an OPEN breaker whose cooldown has elapsed keeps
\* reporting OPEN, to getState() and to the health payload, until a call()
\* is made: only call() takes the state from OPEN to HALF_OPEN.
C17_GetStateReadsOnly ==
  [][/\ lastObs' # lastObs =>
          /\ lastObs' = state
          /\ UNCHANGED <<state, failures, nextAttempt>>
          /\ (lastObs = "none" /\ \A c \in Callers : calls[c] = NoCall) =>
               lastObs' = "CLOSED"
     /\ (state = "OPEN" /\ state' = "HALF_OPEN") =>
          \E c \in Callers : calls[c].pc = "idle" /\ calls'[c].pc = "awaiting"]_vars

\* The breaker opened with resetTimeout = 0, so its cooldown has elapsed,
\* and no call was made since: it is still OPEN and was reported OPEN.
C17_Witness ==
  /\ state = "OPEN"
  /\ resetTimeout = 0
  /\ now > nextAttempt
  /\ lastObs = "OPEN"
  /\ \A c \in Callers : Idle(c)

\* C18: a call() that is admitted invokes the wrapped operation once with the
\* given arguments; when the operation succeeds call() returns its result and
\* the breaker is CLOSED; when it fails call() rethrows the operation's error
\* and failures has grown by exactly one. The breaker's own error is raised
\* only when the state is OPEN and the cooldown has not elapsed.
C18_CallContract ==
  [][\A c \in Callers :
       /\ (calls[c].pc = "idle" /\ calls'[c] # calls[c]) =>
            IF state = "OPEN" /\ now < nextAttempt
              THEN calls'[c].outcome = "openError" /\ calls'[c].value = OpenError
              ELSE /\ calls'[c].pc = "awaiting"
                   /\ calls'[c].invoked = 1
                   /\ calls'[c].opArgs = ArgsOf(c)
       /\ (calls[c].pc = "awaiting" /\ calls'[c].pc = "idle") =>
            /\ calls'[c].invoked = 1
            /\ calls'[c].outcome \in {"result", "opError"}
            /\ calls'[c].outcome = "result" =>
                 (calls'[c].value = OpResult(ArgsOf(c)) /\ state' = "CLOSED")
            /\ calls'[c].outcome = "opError" =>
                 (calls'[c].value = OpError /\ failures' = failures + 1)]_vars

\* A probe admitted from OPEN failed and rethrew the operation's own error,
\* with the failure counted on top of the threshold.
C18_Witness ==
  \E c \in Callers :
    /\ calls[c].entry = "OPEN" /\ calls[c].elapsed
    /\ calls[c].outcome = "opError"
    /\ calls[c].value = OpError
    /\ calls[c].opArgs = ArgsOf(c)
    /\ failures > threshold
    /\ state = "OPEN"

\* C19: register(name, instance) appends exactly one entry at the end of the
\* list of name, creating the list when the name is absent; the entry keeps the
\* instance's id and url, has status 'healthy' and the current time as
\* registeredAt whatever the instance carried in those fields; an id already
\* present gets a second entry; the lists of other services are unchanged.
C19_RegisterAppendsOne ==
  [][lastOp'.op = "register" =>
       LET n == lastOp'.name
           inst == lastOp'.arg[1]
           old == GetOrEmpty(services, n)
           new == services'[n]
       IN /\ DOMAIN services' = DOMAIN services \cup {n}
          /\ Len(new) = Len(old) + 1
          /\ SubSeq(new, 1, Len(old)) = old
          /\ new[Len(new)] = [id |-> inst.id, url |-> inst.url,
                              registeredAt |-> now, status |-> "healthy"]
          /\ \A m \in DOMAIN services \ {n} : services'[m] = services[m]]_vars

\* A register() of an instance that said 'unhealthy', under a name that was
\* absent before its first registration, with an id the list already holds.
C19_Witness ==
  /\ lastOp.op = "register"
  /\ lastOp.name = "ghost"
  /\ lastOp.arg[1].id = "users-2"
  /\ "status" \in DOMAIN lastOp.arg[1]
  /\ lastOp.arg[1].status = "unhealthy"
  /\ lastOp.pre = 1
  /\ "ghost" \in DOMAIN services
  /\ Len(services["ghost"]) = 2
  /\ services["ghost"][1].id = "users-2"
  /\ services["ghost"][2].status = "healthy"

\* The entries of L whose id differs from id, in the order of L.
RECURSIVE DropId(_, _)
DropId(L, id) ==
  IF L = <<>> THEN <<>>
  ELSE IF Head(L).id = id THEN DropId(Tail(L), id)
       ELSE <<Head(L)>> \o DropId(Tail(L), id)

\* C20: unregister(name, id) removes every entry with that id from the list of
\* name and keeps the other entries of the list in their order; when the name
\* or the id is absent nothing changes (and no name is added); the lists of
\* other services are never changed.
C20_UnregisterRemovesAll ==
  [][lastOp'.op = "unregister" =>
       LET n == lastOp'.name
           id == lastOp'.id
       IN /\ DOMAIN services' = DOMAIN services
          /\ \A m \in DOMAIN services \ {n} : services'[m] = services[m]
          /\ Has(services, n) =>
               /\ Matches(services'[n], id) = {}
               /\ services'[n] = DropId(services[n], id)
          /\ (~Has(services, n) \/ Matches(GetOrEmpty(services, n), id) = {}) =>
               services' = services]_vars

\* An unregister() that removed two entries with the id and left another.
C20_Witness ==
  /\ lastOp.op = "unregister"
  /\ lastOp.name = "users"
  /\ lastOp.id = "users-2"
  /\ Has(services, "users")
  /\ "users" \in DOMAIN services
  /\ Len(services["users"]) >= 1
  /\ lastOp.pre = Len(services["users"]) + 2

\* What a client can compare between the responses to two requests: the status
\* and the body without the payment's id.
Outcome(r) ==
  [status |-> r.status, error |-> r.error, message |-> r.message,
   paymentStatus |-> IF r.payment = <<>> THEN "" ELSE r.payment[1].status,
   paymentError |-> IF r.payment = <<>> THEN "" ELSE r.payment[1].error,
   circuitBreakerState |-> r.circuitBreakerState]

\* C13: in the payments service, the response to a request whose gateway call
\* the breaker rejected differs from the response to a request of the same
\* endpoint (create-payment, refund) whose gateway call was invoked and failed:
\* whenever one is answered right after the other, the two outcomes differ.
C13_RejectionDistinct ==
  [][(/\ lastPay.kind = lastPay'.kind
      /\ {lastPay.gateway, lastPay'.gateway} = {"rejected", "failed"}) =>
       Outcome(lastPay.res[1]) # Outcome(lastPay'.res[1])]_vars

\* A create-payment rejected by the OPEN breaker, answered with the same
\* breaker state as the genuine gateway failure that opened the breaker.
C13_Witness ==
  /\ lastPay.kind = "create"
  /\ lastPay.gateway = "rejected"
  /\ lastPay.res[1].status = 502
  /\ lastPay.res[1].circuitBreakerState = "OPEN"
  /\ lastPay.res[1].payment[1].error = OpenError[2]
  /\ \E id \in 1..Len(payments) :
       /\ payments[id].status = "failed"
       /\ payments[id].error = "Payment gateway timeout"

\* C21: markUnhealthy(name, id) with a service name the registry does not know,
\* or an id the list of name does not hold, leaves the whole registry as it
\* was (no status changes, no name is created); and whatever the arguments,
\* the lists of the other services, same id or not, are not changed.
C21_UnknownIsNoOp ==
  [][lastOp'.op = "markUnhealthy" =>
       LET n == lastOp'.name
           id == lastOp'.id
       IN /\ (~Has(services, n) \/ Matches(GetOrEmpty(services, n), id) = {}) =>
               services' = services
          /\ DOMAIN services' = DOMAIN services
          /\ \A m \in DOMAIN services \ {n} : services'[m] = services[m]]_vars

\* markUnhealthy() was given an unknown service name and an id that a known
\* service holds; that instance is still healthy.
C21_Witness ==
  /\ lastOp.op = "markUnhealthy"
  /\ lastOp.name = "ghost"
  /\ lastOp.id = "users-1"
  /\ ~Has(services, "ghost")
  /\ "users" \in DOMAIN services
  /\ Matches(services["users"], "users-1") # {}
  /\ \A k \in Matches(services["users"], "users-1") :
       services["users"][k].status = "healthy"

\* C22: getAllServices() returns a mapping whose keys are exactly the names
\* given to register() since the registry was last empty, each with the full
\* current list of that name, unhealthy entries included; the mapping is empty
\* when nothing is registered; the registry is not changed.
C22_AllServicesSnapshot ==
  [][lastOp'.op = "getAllServices" =>
       LET got == lastOp'.result[1]
       IN /\ DOMAIN got = registered
          /\ \A n \in registered : got[n] = services[n]
          /\ registered = {} => got = EmptyMap
          /\ services' = services]_vars

\* getAllServices() listed a name whose list is now empty and a name whose
\* list holds an unhealthy entry.
C22_Witness ==
  /\ lastOp.op = "getAllServices"
  /\ "users" \in DOMAIN lastOp.result[1]
  /\ lastOp.result[1]["users"] = <<>>
  /\ "ghost" \in DOMAIN lastOp.result[1]
  /\ \E k \in 1..Len(lastOp.result[1]["ghost"]) :
       lastOp.result[1]["ghost"][k].status = "unhealthy"

C24_EmailsUnique ==
  \A i, j \in DOMAIN users : users[i].email = users[j].email => i = j

\* C25: database.getUserById(id) returns null for every id that has no user,
\* never created or deleted since.
C25_MissingIsNull ==
  (lastUser.op = "getUserById" /\ lastUser.id \notin DOMAIN users) =>
    lastUser.result = Null

\* The messages of L were sent in the order they are listed.
InSendOrder(L) == \A i, j \in 1..Len(L) : i < j => L[i].id < L[j].id

\* C26: receiveMessages(queue, n) returns the min(n, length) oldest messages
\* of the queue in the order they were sent and removes exactly those, leaving
\* the remaining messages in order; on an unknown queue it returns an empty
\* list and creates nothing; other queues are not changed.
C26_ReceiveOldestFirst ==
  [][lastMq'.op = "receiveMessages" =>
       LET q == lastMq'.queue
           n == lastMq'.arg[1]
           old == GetOrEmpty(queues, q)
           k == IF n < Len(old) THEN n ELSE Len(old)
           got == lastMq'.result
       IN /\ Len(got) = k
          /\ got \o GetOrEmpty(queues', q) = old
          /\ InSendOrder(old)
          /\ DOMAIN queues' = DOMAIN queues
          /\ \A m \in DOMAIN queues \ {q} : queues'[m] = queues[m]
          /\ ~Has(queues, q) => (got = <<>> /\ queues' = queues)]_vars

\* receiveMessages(queue, 2) on a queue of three messages: the two oldest
\* were returned, the newest is left.
C26_Witness ==
  /\ lastMq.op = "receiveMessages"
  /\ lastMq.queue = "test-queue"
  /\ lastMq.arg = <<2>>
  /\ Len(lastMq.result) = 2
  /\ lastMq.result[1].id = 1
  /\ lastMq.result[2].id = 2
  /\ Len(queues["test-queue"]) = 1
  /\ queues["test-queue"][1].id = 3

\* C27: sendMessage(queue, body) appends the message to the queue and calls
\* every callback subscribed to the queue at that moment once, in subscription
\* order, with that message; a callback that throws does not stop the others
\* from being called, does not take the message off the queue and does not
\* make sendMessage() raise.
C27_SendNotifiesAll ==
  [][lastMq'.op = "sendMessage" =>
       LET q == lastMq'.queue
           subs == GetOrEmpty(subscribers, q)
           ran == lastMq'.calls
           new == queues'[q]
           message == new[Len(new)]
       IN /\ new = Append(GetOrEmpty(queues, q), message)
          /\ message.body = lastMq'.arg[1]
          /\ Len(ran) = Len(subs)
          /\ \A k \in 1..Len(subs) :
               ran[k].callback = subs[k] /\ ran[k].message = message
          /\ ~lastMq'.threw
          /\ lastMq'.result = <<message.id>>
          /\ subscribers' = subscribers]_vars

\* sendMessage() on a queue whose first subscriber throws: the second one was
\* called all the same and the message is on the queue.
C27_Witness ==
  /\ lastMq.op = "sendMessage"
  /\ Len(lastMq.calls) = 2
  /\ lastMq.calls[1].callback = "bad"
  /\ lastMq.calls[1].threw
  /\ lastMq.calls[2].callback = "cb1"
  /\ ~lastMq.threw
  /\ queues[lastMq.queue][Len(queues[lastMq.queue])].id = lastMq.result[1]

\* C28: when the clock keeps advancing, calls keep being made, every invoked
\* operation completes, and from some point on no invoked operation fails,
\* the breaker eventually is CLOSED and stays CLOSED.
C28_RecoveryIsLive ==
  (<>[][consec' <= consec]_vars) => <>[](state = "CLOSED")

\* A breaker back to CLOSED after having been OPEN past its cooldown.
C28_Witness ==
  /\ state = "CLOSED"
  /\ \E c \in Callers :
       /\ calls[c].entry = "OPEN"
       /\ calls[c].elapsed
       /\ calls[c].outcome = "result"

\* C29: no step takes the state from OPEN to CLOSED: the breaker leaves OPEN
\* only through HALF_OPEN.
C29_OpenLeavesThroughHalfOpen ==
  [][~(state = "OPEN" /\ state' = "CLOSED")]_vars

\* C30: with threshold >= 1, in every reachable state the breaker is CLOSED
\* exactly when failures < threshold, and OPEN or HALF_OPEN exactly when
\* failures >= threshold.
C30_ClosedIffBelowThreshold ==
  threshold >= 1 =>
    /\ state = "CLOSED" <=> failures < threshold
    /\ state \in {"OPEN", "HALF_OPEN"} <=> failures >= threshold

\* An OPEN breaker whose count went past the threshold while two calls were
\* in flight.
C30_Witness ==
  /\ state = "OPEN"
  /\ failures > threshold
  /\ \E c \in Callers : calls[c].pc = "awaiting"

\* C31: a call() rejected with 'Circuit breaker is OPEN' leaves the breaker as
\* it was: the state stays OPEN, failures is not incremented and nextAttempt
\* is not moved.
C31_RejectionChangesNothing ==
  [][\A c \in Callers :
       (/\ calls[c].pc = "idle"
        /\ calls'[c] # calls[c]
        /\ calls'[c].outcome = "openError") =>
         /\ state = "OPEN" /\ state' = "OPEN"
         /\ failures' = failures
         /\ nextAttempt' = nextAttempt]_vars

\* A call rejected after the clock has moved since the breaker opened, with
\* the cooldown still running from the opening.
C31_Witness ==
  /\ state = "OPEN"
  /\ now > openedAt
  /\ now < nextAttempt
  /\ nextAttempt = openedAt + resetTimeout
  /\ \E c \in Callers :
       /\ calls[c].pc = "idle"
       /\ calls[c].outcome = "openError"
       /\ calls[c].entry = "OPEN"

\* C32: with one sequential caller, whenever no call is in flight the state
\* is CLOSED or OPEN, a getState() made then never returns HALF_OPEN, and
\* HALF_OPEN is held only while a probe admitted from OPEN is in flight.
C32_HalfOpenOnlyInFlight ==
  /\ [](calls[SeqCaller].pc = "idle" => state \in {"CLOSED", "OPEN"})
  /\ [](state = "HALF_OPEN" =>
          /\ calls[SeqCaller].pc = "awaiting"
          /\ calls[SeqCaller].entry = "OPEN")
  /\ [][(calls[SeqCaller].pc = "idle" /\ lastObs' # lastObs) =>
          lastObs' \in {"CLOSED", "OPEN"}]_vars

\* getState() returned CLOSED after a probe admitted from OPEN succeeded.
C32_Witness ==
  /\ calls[SeqCaller].pc = "idle"
  /\ calls[SeqCaller].entry = "OPEN"
  /\ calls[SeqCaller].seen = "HALF_OPEN"
  /\ calls[SeqCaller].outcome = "result"
  /\ state = "CLOSED"
  /\ lastObs = "CLOSED"

\* C33: registry entries change only through the operations meant to change
\* them: discover, getHealthyInstance and getAllServices leave the registry
\* as it was; register keeps every entry there was and only appends;
\* markUnhealthy keeps every list's length and changes an entry only from
\* 'healthy' to 'unhealthy'; unregister leaves only entries that were there,
\* unaltered. (clear() on the Map itself is the test suite's, not an
\* operation of the registry.)
C33_EntriesChangeByOperation ==
  [][LET op == lastOp'.op
     IN /\ op \in {"discover", "getHealthyInstance", "getAllServices"} =>
             services' = services
        /\ op = "register" =>
             \A n \in DOMAIN services :
               /\ n \in DOMAIN services'
               /\ Len(services'[n]) >= Len(services[n])
               /\ SubSeq(services'[n], 1, Len(services[n])) = services[n]
        /\ op = "markUnhealthy" =>
             /\ DOMAIN services' = DOMAIN services
             /\ \A n \in DOMAIN services :
                  /\ Len(services'[n]) = Len(services[n])
                  /\ \A k \in 1..Len(services[n]) :
                       \/ services'[n][k] = services[n][k]
                       \/ /\ services[n][k].status = "healthy"
                          /\ services'[n][k] =
                               [services[n][k] EXCEPT !.status = "unhealthy"]
        /\ op = "unregister" =>
             /\ DOMAIN services' = DOMAIN services
             /\ \A n \in DOMAIN services :
                  /\ Len(services'[n]) <= Len(services[n])
                  /\ \A k \in 1..Len(services'[n]) :
                       \E j \in 1..Len(services[n]) :
                         services'[n][k] = services[n][j]
        /\ (\E n \in DOMAIN services :
              \/ n \notin DOMAIN services'
              \/ Len(services'[n]) < Len(services[n])) =>
             op \in {"unregister", "clear"}]_vars

\* An instance marked unhealthy was registered again under the same id: the
\* unhealthy entry is still there, unchanged, next to the new one.
C33_Witness ==
  /\ lastOp.op = "register"
  /\ lastOp.name = "users"
  /\ "users" \in DOMAIN services
  /\ Len(services["users"]) = lastOp.pre + 1
  /\ \E k \in 1..lastOp.pre :
       /\ services["users"][k].id = lastOp.id
       /\ services["users"][k].status = "unhealthy"
  /\ services["users"][lastOp.pre + 1].id = lastOp.id
  /\ services["users"][lastOp.pre + 1].status = "healthy"

\* C34: a dispatch never changes the registry, whatever its outcome: every
\* step of proxyRequest and every step of the orders service's pay request
\* leaves services as it was, so an instance that was healthy when it was
\* chosen is still healthy after a refused or timed-out call.
C34_DispatchKeepsRegistry ==
  [][(\/ proxy' # proxy
      \/ ord' # ord
      \/ lastOrd'.op = "pay" /\ lastOrd' # lastOrd) =>
       services' = services]_vars

\* The gateway's call was refused and the orders service's call failed; both
\* instances are still healthy, and the gateway's next dispatch can choose the
\* same instance again.
C34_Witness ==
  /\ proxy["r1"].pc = "done"
  /\ proxy["r1"].cause = "ECONNREFUSED"
  /\ proxy["r1"].service \in DOMAIN services
  /\ \E k \in 1..Len(services[proxy["r1"].service]) :
       /\ services[proxy["r1"].service][k].url = proxy["r1"].target
       /\ services[proxy["r1"].service][k].status = "healthy"
  /\ ENABLED (/\ ProxyRequest("r1", proxy["r1"].service)
              /\ proxy'["r1"].target = proxy["r1"].target)
  /\ lastOrd.op = "pay"
  /\ lastOrd.status = 502
  /\ orders[lastOrd.id].status = "payment_failed"
  /\ payRequests[lastOrd.id] = 1
  /\ services["payments"][1].status = "healthy"

\* C36: the orders service sends at most one request to the payments service
\* for an order, the pay requests interleaved across their awaits included,
\* and an order cancelled while its payment is in flight is never 'confirmed'.
C36_OnePaymentPerOrder ==
  /\ \A i \in OrderIds : payRequests[i] <= 1
  /\ \A i \in 1..Len(orders) :
       "order.cancelled" \in orderEvents[i] => orders[i].status # "confirmed"

\* C35: in the payments service an accepted create request adds exactly one
\* record, with status 'processing'; when its gateway call completes the
\* record becomes 'completed' with a payment.completed event or 'failed' with
\* a payment.failed event; a request the breaker rejects adds one 'failed'
\* record with its event and the gateway is not invoked; and a record is
\* 'processing' only while its request is waiting for the gateway.
C35_PaymentRecordLifecycle ==
  /\ [](\A i \in 1..Len(payments) :
          payments[i].status = "processing" =>
            \E h \in Callers :
              pay[h].pc = "awaiting" /\ pay[h].kind = "create" /\ pay[h].pid = i)
  /\ [][\A h \in Callers :
          /\ (pay[h].pc = "idle" /\ pay'[h].pc = "awaiting" /\ pay'[h].kind = "create") =>
               /\ Len(payments') = Len(payments) + 1
               /\ SubSeq(payments', 1, Len(payments)) = payments
               /\ pay'[h].pid = Len(payments')
               /\ payments'[Len(payments')].status = "processing"
               /\ calls'[h].invoked = 1
          /\ (pay[h].pc = "awaiting" /\ pay[h].kind = "create" /\ pay'[h].pc = "idle") =>
               LET id == pay[h].pid
                   events == paymentEvents'[id]
               IN /\ Len(payments') = Len(payments)
                  /\ Len(events) = Len(paymentEvents[id]) + 1
                  /\ \/ /\ payments'[id].status = "completed"
                        /\ events[Len(events)].event = "payment.completed"
                     \/ /\ payments'[id].status = "failed"
                        /\ events[Len(events)].event = "payment.failed"
          /\ (/\ pay[h].pc = "idle" /\ pay'[h].pc = "idle"
              /\ lastPay' # lastPay
              /\ lastPay'.kind = "create") =>
               IF lastPay'.gateway = "rejected"
                 THEN /\ Len(payments') = Len(payments) + 1
                      /\ SubSeq(payments', 1, Len(payments)) = payments
                      /\ payments'[Len(payments')].status = "failed"
                      /\ paymentEvents'[Len(payments')] # <<>>
                      /\ paymentEvents'[Len(payments')][1].event = "payment.failed"
                      /\ \A c \in Callers : calls'[c] # calls[c] => calls'[c].invoked = 0
                      /\ failures' = failures
                 ELSE lastPay'.gateway = "none" => payments' = payments]_vars

\* A request rejected by the OPEN breaker was answered after the failed
\* payments that opened it: no record is left 'processing'.
C35_Witness ==
  /\ lastPay.kind = "create"
  /\ lastPay.gateway = "rejected"
  /\ \A h \in Callers : pay[h].pc = "idle"
  /\ Len(payments) = MaxPayments
  /\ payments[Len(payments)].status = "failed"
  /\ paymentEvents[Len(payments)][1].event = "payment.failed"
  /\ \A i \in 1..Len(payments) : payments[i].status \in {"completed", "failed"}

====
